---- MODULE Spec2Model ----
(***************************************************************************)
(* Voice conversational turn pipeline of the Kisan AI mobile client:       *)
(*   - Turn Orchestrator        (VoiceChatScreen)                          *)
(*   - Session Identity Manager (SessionService)                           *)
(*   - Audio Playback Controller (VoicePlayer)                             *)
(*   - Audio Capture Controller  (VoiceRecorder)                           *)
(* Each component has its own specification (SpecTurn, SpecSession,        *)
(* SpecPlayer, SpecRecorder); the variables of the other components stay   *)
(* at their initial values under it.                                       *)
(*                                                                         *)
(* Execution model: one JavaScript event loop.  A handler runs atomically  *)
(* up to its next `await`; the completion of each awaited device, storage  *)
(* or network operation is a separate step, and completions of different   *)
(* operations may arrive in any order.                                     *)
(***************************************************************************)
EXTENDS Integers, Sequences, FiniteSets, TLC

VARIABLES
  \* ---- Turn Orchestrator (VoiceChatScreen) ----
  messages,          \* useState<ChatMessage[]>
  textInput,         \* useState<string>, a sequence of characters
  isProcessing,      \* useState<boolean>: a voice turn is being processed
  isSending,         \* useState<boolean>: a text turn is being sent
  messageIdCounter,  \* useRef<number>
  calls,             \* remote agent calls awaiting their response
  turnSeq,           \* number of turns dispatched so far (names the turns)
  alertCount,        \* number of Alert.alert dialogs raised by the screen
  currentLanguage,   \* useLanguage().currentLanguage
  languageChanges,   \* number of changes of the active language so far
  turnLog,           \* history: per turn its kind, outcome, turns pending at submit
  \* ---- Session Identity Manager (SessionService) ----
  sessionId,         \* private sessionId: string | null (NoId is null)
  userId,            \* private userId: string | null
  storage,           \* AsyncStorage: the values under the two keys
  procs,             \* per caller: the call it is running and where it is
  queue,             \* callers whose storage request is pending, oldest first
  uuidSeq,           \* number of uuidv4() values drawn so far
  generated,         \* history: <<kind, id>> for every id generated
  rets,              \* history: what each finished call returned
  persistedUserIds,  \* history: every value ever stored under the user key
  sessFlags,         \* history: faults / cleared / anyCompleted / getters only
  launch,            \* number of the current app launch on this install
  \* ---- Audio Playback Controller (VoicePlayer) ----
  base64Audio,       \* prop: the payload to play (NoAudio when absent)
  state,             \* useState<PlayerState>
  audioUriRef,       \* useRef<string | null> (NoFile is null)
  playing,           \* player.playing of the expo-audio player
  mounted,           \* the component is mounted
  disk,              \* playback temp files present in the cache directory
  fileOps,           \* FileSystem requests issued and not yet completed
  fileSeq,           \* number of temp file names drawn so far
  playerLog,         \* history: loads started, FS faults, state at unmount, last onError
  autoPlay,          \* the autoPlay prop (default false)
  \* ---- Audio Capture Controller (VoiceRecorder) ----
  permissionStatus,  \* useState<'undetermined' | 'granted' | 'denied'>
  osPermission,      \* what the OS answers to a permission request
  mountPermission,   \* the permission request of the mount effect is pending
  isRecording,       \* recorderState.isRecording as last rendered
  recorder,          \* the expo-audio recorder: [recording, uri]
  timeoutRef,        \* useRef<Timeout | null> (NoTimer is null)
  timers,            \* timers set and neither fired nor cleared
  starts,            \* startRecording calls suspended at an await
  stops,             \* stopRecording calls suspended at an await
  captureDisk,       \* recording files present on disk
  recLog,            \* history: callbacks made, attempts, stop calls
  denied,            \* history: start attempts whose permission was refused
  recorderMounted,   \* the VoiceRecorder component is mounted
  \* ---- Diagnosis service and crop health screen ----
  trCalls,           \* translateText calls suspended at an await
  trResults,         \* history: how each translateText call settled
  diagnosisScreen,   \* CropHealthScreen: selectedImage, isLoading, isTranslating, ...
  resultView         \* what DiagnosisResultScreen shows, once navigated to

turnVars == <<messages, textInput, isProcessing, isSending, messageIdCounter,
              calls, turnSeq, alertCount, currentLanguage, languageChanges,
              turnLog>>

sessVars == <<sessionId, userId, storage, procs, queue, uuidSeq, generated,
              rets, persistedUserIds, sessFlags, launch>>

playerVars == <<base64Audio, state, audioUriRef, playing, mounted, disk,
                fileOps, fileSeq, playerLog, autoPlay>>

recVars == <<permissionStatus, osPermission, mountPermission, isRecording,
             recorder, timeoutRef, timers, starts, stops, captureDisk, recLog,
             denied, recorderMounted>>

dxVars == <<diagnosisScreen, resultView>>

diagVars == <<trCalls, trResults, dxVars>>

vars == <<turnVars, sessVars, playerVars, recVars, diagVars>>

\* What a step of one component leaves alone.
notTurn == <<sessVars, playerVars, recVars, diagVars>>
notSession == <<turnVars, playerVars, recVars, diagVars>>
notPlayer == <<turnVars, sessVars, recVars, diagVars>>
notRecorder == <<turnVars, sessVars, playerVars, diagVars>>
notDiag == <<turnVars, sessVars, playerVars, recVars>>

\* ------------------------------------------------------------------------
\* Bounds
\* ------------------------------------------------------------------------
MaxTurns == 2          \* turns dispatched in one run
MaxLanguageChanges == 1  \* changes of the active language in one run
MaxCallers == 2    \* calls of the session service that may overlap
MaxCalls == 2      \* calls of the session service in one run
MaxLaunches == 2   \* app launches on one install
MaxLoads == 2      \* payloads one VoicePlayer is given in one run
MaxAttempts == 2   \* presses of the record button that start a recording
MaxStops == 2      \* stopRecording calls in one run
MaxTranslations == 2  \* translateText calls in one run
MaxDiagnoses == 2  \* presses of the diagnose button in one run

\* A suspended call that resumes leaves the list of suspended calls.
RemoveAt(seq, i) == SubSeq(seq, 1, i - 1) \o SubSeq(seq, i + 1, Len(seq))

\* An absent or empty base64 audio payload.
NoAudio == ""

\* ------------------------------------------------------------------------
\* Session Identity Manager
\* ------------------------------------------------------------------------
NoId == 0

Callers == 1..MaxCallers

SessionOps == {"getUserId", "getSessionId", "initializeSession",
               "startNewSession", "clearSession"}

IdleProc == [op |-> "none", pc |-> "idle", arg |-> NoId]

\* Calls started so far.
CallsMade == Len(rets) + Cardinality({p \in Callers : procs[p].pc # "idle"})

\* What a finished call hands to its caller.
Returned(p, op, sid, uid) ==
  [ op |-> op, outcome |-> "value", launch |-> launch,
    value |-> (CASE op = "getUserId" -> uid
                 [] op = "getSessionId" -> sid
                 [] OTHER -> NoId) ]

Rejected(p, op) ==
  [ op |-> op, outcome |-> "throws", launch |-> launch, value |-> NoId ]

\* Bookkeeping of the history flags when caller p invokes op.
FlagsOnInvoke(op) ==
  [ sessFlags EXCEPT
      !.gettersOnly = @ /\ op \in {"getUserId", "getSessionId"},
      !.overlapped = @ /\ ~sessFlags.anyCompleted,
      !.cleared = @ \/ op = "clearSession" ]

FlagsOnCompletion(ok) ==
  [ sessFlags EXCEPT !.anyCompleted = TRUE, !.faults = @ \/ ~ok ]

\* initializeSession, from its first line to its first await: a new session
\* id is generated and its write issued.
BeginInitialize(p, op) ==
  /\ sessionId' = uuidSeq + 1
  /\ uuidSeq' = uuidSeq + 1
  /\ generated' = generated \cup {<<"session", uuidSeq + 1>>}
  /\ procs' = [procs EXCEPT ![p] = [op |-> op, pc |-> "setSess",
                                    arg |-> uuidSeq + 1]]

\* The catch block of initializeSession: both ids are replaced by fresh
\* in-memory values; then the call that ran initializeSession returns.
CatchInitialize(p) ==
  /\ sessionId' = uuidSeq + 1
  /\ userId' = uuidSeq + 2
  /\ uuidSeq' = uuidSeq + 2
  /\ generated' = generated \cup {<<"session", uuidSeq + 1>>,
                                  <<"user", uuidSeq + 2>>}
  /\ rets' = Append(rets, Returned(p, procs[p].op, uuidSeq + 1, uuidSeq + 2))
  /\ procs' = [procs EXCEPT ![p] = IdleProc]
  /\ UNCHANGED <<storage, persistedUserIds>>

\* A call is made by an idle caller.
Invoke(p, op) ==
  /\ procs[p].pc = "idle"
  /\ CallsMade < MaxCalls
  /\ sessFlags' = FlagsOnInvoke(op)
  /\ UNCHANGED <<storage, persistedUserIds, launch, notSession>>

\* getUserId up to its first await.
getUserId(p) ==
  /\ Invoke(p, "getUserId")
  /\ IF userId # NoId
       THEN /\ rets' = Append(rets, Returned(p, "getUserId", sessionId, userId))
            /\ UNCHANGED <<procs, queue>>
       ELSE /\ procs' = [procs EXCEPT ![p] = [op |-> "getUserId", pc |-> "get",
                                              arg |-> NoId]]
            /\ queue' = Append(queue, p)
            /\ UNCHANGED rets
  /\ UNCHANGED <<sessionId, userId, uuidSeq, generated>>

\* getSessionId up to its first await.
getSessionId(p) ==
  /\ Invoke(p, "getSessionId")
  /\ IF sessionId # NoId
       THEN /\ rets' = Append(rets, Returned(p, "getSessionId", sessionId, userId))
            /\ UNCHANGED <<procs, queue>>
       ELSE /\ procs' = [procs EXCEPT ![p] = [op |-> "getSessionId",
                                              pc |-> "get", arg |-> NoId]]
            /\ queue' = Append(queue, p)
            /\ UNCHANGED rets
  /\ UNCHANGED <<sessionId, userId, uuidSeq, generated>>

\* initializeSession called directly, up to its first await.
initializeSession(p) ==
  /\ Invoke(p, "initializeSession")
  /\ BeginInitialize(p, "initializeSession")
  /\ queue' = Append(queue, p)
  /\ UNCHANGED <<userId, rets>>

\* A startNewSession that also forgets the user id.
startNewSession_ForgetsUser(p) ==
  /\ Invoke(p, "startNewSession")
  /\ sessionId' = uuidSeq + 1
  /\ userId' = NoId
  /\ uuidSeq' = uuidSeq + 1
  /\ generated' = generated \cup {<<"session", uuidSeq + 1>>}
  /\ procs' = [procs EXCEPT ![p] = [op |-> "startNewSession", pc |-> "newSess",
                                    arg |-> uuidSeq + 1]]
  /\ queue' = Append(queue, p)
  /\ UNCHANGED rets

\* startNewSession up to its await.
startNewSession(p) ==
  /\ Invoke(p, "startNewSession")
  /\ sessionId' = uuidSeq + 1
  /\ uuidSeq' = uuidSeq + 1
  /\ generated' = generated \cup {<<"session", uuidSeq + 1>>}
  /\ procs' = [procs EXCEPT ![p] = [op |-> "startNewSession", pc |-> "newSess",
                                    arg |-> uuidSeq + 1]]
  /\ queue' = Append(queue, p)
  /\ UNCHANGED <<userId, rets>>

\* clearSession up to its await.
clearSession(p) ==
  /\ Invoke(p, "clearSession")
  /\ sessionId' = NoId
  /\ userId' = NoId
  /\ procs' = [procs EXCEPT ![p] = [op |-> "clearSession", pc |-> "remove",
                                    arg |-> NoId]]
  /\ queue' = Append(queue, p)
  /\ UNCHANGED <<uuidSeq, generated, rets>>

\* The oldest pending storage request, of caller p at pc, completes.
Completes(p, pc, ok) ==
  /\ queue # <<>> /\ Head(queue) = p
  /\ procs[p].pc = pc
  /\ sessFlags' = FlagsOnCompletion(ok)
  /\ UNCHANGED <<launch, notSession>>

\* The getItem of getUserId / getSessionId resolves: the field is assigned
\* what was read; if that is null, initializeSession runs to its first await.
\* A rejected getItem rejects the call (the getters have no try block).
GetterReadCompletes(p, ok) ==
  /\ Completes(p, "get", ok)
  /\ LET op == procs[p].op
         read == IF op = "getUserId" THEN storage.app_user_id
                                     ELSE storage.app_session_id
     IN IF ~ok
          THEN /\ rets' = Append(rets, Rejected(p, op))
               /\ procs' = [procs EXCEPT ![p] = IdleProc]
               /\ queue' = Tail(queue)
               /\ UNCHANGED <<sessionId, userId, uuidSeq, generated>>
          ELSE IF read # NoId
            THEN /\ IF op = "getUserId"
                      THEN userId' = read /\ UNCHANGED sessionId
                      ELSE sessionId' = read /\ UNCHANGED userId
                 /\ rets' = Append(rets, Returned(p, op, sessionId', userId'))
                 /\ procs' = [procs EXCEPT ![p] = IdleProc]
                 /\ queue' = Tail(queue)
                 /\ UNCHANGED <<uuidSeq, generated>>
            ELSE /\ IF op = "getUserId"
                      THEN userId' = NoId
                      ELSE UNCHANGED userId
                 /\ BeginInitialize(p, op)
                 /\ queue' = Append(Tail(queue), p)
                 /\ UNCHANGED rets
  /\ UNCHANGED <<storage, persistedUserIds>>

\* initializeSession: setItem(SESSION_ID_KEY) resolves; getItem(USER_ID_KEY)
\* is issued.
InitSessionWriteCompletes(p, ok) ==
  /\ Completes(p, "setSess", ok)
  /\ IF ok
       THEN /\ storage' = [storage EXCEPT !.app_session_id = procs[p].arg]
            /\ procs' = [procs EXCEPT ![p].pc = "getUser"]
            /\ queue' = Append(Tail(queue), p)
            /\ UNCHANGED <<sessionId, userId, uuidSeq, generated, rets,
                           persistedUserIds>>
       ELSE /\ CatchInitialize(p)
            /\ queue' = Tail(queue)

\* initializeSession: getItem(USER_ID_KEY) resolves and is assigned to
\* this.userId; if null a user id is generated and its write issued.
InitUserReadCompletes(p, ok) ==
  /\ Completes(p, "getUser", ok)
  /\ IF ~ok
       THEN /\ CatchInitialize(p)
            /\ queue' = Tail(queue)
       ELSE IF storage.app_user_id # NoId
         THEN /\ userId' = storage.app_user_id
              /\ rets' = Append(rets, Returned(p, procs[p].op, sessionId, userId'))
              /\ procs' = [procs EXCEPT ![p] = IdleProc]
              /\ queue' = Tail(queue)
              /\ UNCHANGED <<sessionId, uuidSeq, generated, storage,
                             persistedUserIds>>
         ELSE /\ userId' = uuidSeq + 1
              /\ uuidSeq' = uuidSeq + 1
              /\ generated' = generated \cup {<<"user", uuidSeq + 1>>}
              /\ procs' = [procs EXCEPT ![p].pc = "setUser",
                                        ![p].arg = uuidSeq + 1]
              /\ queue' = Append(Tail(queue), p)
              /\ UNCHANGED <<sessionId, rets, storage, persistedUserIds>>

\* initializeSession: setItem(USER_ID_KEY) resolves; the call returns.
InitUserWriteCompletes(p, ok) ==
  /\ Completes(p, "setUser", ok)
  /\ IF ok
       THEN /\ storage' = [storage EXCEPT !.app_user_id = procs[p].arg]
            /\ persistedUserIds' = persistedUserIds \cup {procs[p].arg}
            /\ rets' = Append(rets, Returned(p, procs[p].op, sessionId, userId))
            /\ procs' = [procs EXCEPT ![p] = IdleProc]
            /\ UNCHANGED <<sessionId, userId, uuidSeq, generated>>
       ELSE CatchInitialize(p)
  /\ queue' = Tail(queue)

\* startNewSession: its setItem resolves (a rejection rejects the call).
NewSessionWriteCompletes(p, ok) ==
  /\ Completes(p, "newSess", ok)
  /\ IF ok
       THEN /\ storage' = [storage EXCEPT !.app_session_id = procs[p].arg]
            /\ rets' = Append(rets, Returned(p, "startNewSession", sessionId, userId))
       ELSE /\ rets' = Append(rets, Rejected(p, "startNewSession"))
            /\ UNCHANGED storage
  /\ procs' = [procs EXCEPT ![p] = IdleProc]
  /\ queue' = Tail(queue)
  /\ UNCHANGED <<sessionId, userId, uuidSeq, generated, persistedUserIds>>

\* clearSession: multiRemove of both keys resolves.
ClearRemoveCompletes(p, ok) ==
  /\ Completes(p, "remove", ok)
  /\ IF ok
       THEN /\ storage' = [app_session_id |-> NoId, app_user_id |-> NoId]
            /\ rets' = Append(rets, Returned(p, "clearSession", sessionId, userId))
       ELSE /\ rets' = Append(rets, Rejected(p, "clearSession"))
            /\ UNCHANGED storage
  /\ procs' = [procs EXCEPT ![p] = IdleProc]
  /\ queue' = Tail(queue)
  /\ UNCHANGED <<sessionId, userId, uuidSeq, generated, persistedUserIds>>

\* The calls of callers p, p+1, ... that are in progress, as calls that
\* never return.
RECURSIVE AbandonedCalls(_)
AbandonedCalls(p) ==
  IF p > MaxCallers THEN <<>>
  ELSE IF procs[p].pc = "idle" THEN AbandonedCalls(p + 1)
  ELSE <<[ op |-> procs[p].op, outcome |-> "abandoned", launch |-> launch,
           value |-> NoId ]>> \o AbandonedCalls(p + 1)

\* The app is closed and launched again: the module is loaded anew (the
\* singleton's fields are null, the calls in progress are gone), AsyncStorage
\* keeps what was written.
Relaunch ==
  /\ launch < MaxLaunches
  /\ launch' = launch + 1
  /\ sessionId' = NoId
  /\ userId' = NoId
  /\ procs' = [p \in Callers |-> IdleProc]
  /\ queue' = <<>>
  /\ rets' = rets \o AbandonedCalls(1)
  /\ UNCHANGED <<storage, uuidSeq, generated, persistedUserIds, sessFlags,
                 notSession>>

\* A fresh install: nothing in memory, nothing stored.
InitSessVars ==
  /\ sessionId = NoId
  /\ userId = NoId
  /\ storage = [app_session_id |-> NoId, app_user_id |-> NoId]
  /\ procs = [p \in Callers |-> IdleProc]
  /\ queue = <<>>
  /\ uuidSeq = 0
  /\ generated = {}
  /\ rets = <<>>
  /\ persistedUserIds = {}
  /\ sessFlags = [faults |-> FALSE, cleared |-> FALSE, anyCompleted |-> FALSE,
                  gettersOnly |-> TRUE, overlapped |-> TRUE]
  /\ launch = 1

\* ------------------------------------------------------------------------
\* Audio Playback Controller
\* ------------------------------------------------------------------------
NoFile == 0

\* Payloads a VoicePlayer can be given.
PlaybackPayloads == { "mp3", "mp3b" }

\* convertBase64ToAudio up to its await: loading is flagged, the error
\* cleared, a new file name drawn and the write issued.  `seen` is
\* state.audioUri of the render whose [base64Audio] effect made the call:
\* the value the playAudio of that effect's closure reads.
convertBase64ToAudio(st, ops, seqNo) ==
  [ state   |-> [st EXCEPT !.isLoading = TRUE, !.hasError = FALSE,
                           !.errorMessage = ""],
    fileOps |-> Append(ops, [kind |-> "write", file |-> seqNo + 1,
                             seen |-> st.audioUri]),
    fileSeq |-> seqNo + 1 ]

\* cleanupAudioFile up to its await: if the ref names a file, its delete is
\* issued; the ref is cleared only after the delete has completed.
cleanupAudioFile(ref, ops) ==
  IF ref # NoFile
    THEN Append(ops, [kind |-> "delete", file |-> ref, seen |-> NoFile])
    ELSE ops

\* isDisabled without the error flag.
isDisabled_IgnoresError(st, disabledProp) ==
  disabledProp \/ st.isLoading \/ st.audioUri = NoFile

\* isDisabled: the play / pause button is disabled.
isDisabled(st, disabledProp) ==
  disabledProp \/ st.isLoading \/ st.hasError \/ st.audioUri = NoFile

\* The replay button is rendered and enabled.
ReplayEnabled(st, disabledProp) ==
  st.audioUri # NoFile /\ ~st.isLoading /\ ~st.hasError /\ ~disabledProp

\* The `disabled` prop: VoiceChatScreen does not pass it.
PlayerDisabledProp == FALSE

\* The parent renders the player with another payload (or none): the
\* [base64Audio] effect is cleaned up (cleanupAudioFile) and run again
\* (convertBase64ToAudio when there is a payload).
SetPayload(b) ==
  /\ mounted
  /\ b # base64Audio
  /\ b # NoAudio => playerLog.loads < MaxLoads
  /\ base64Audio' = b
  /\ LET cleaned == cleanupAudioFile(audioUriRef, fileOps)
         conv == convertBase64ToAudio(state, cleaned, fileSeq)
     IN IF b # NoAudio
          THEN /\ state' = conv.state
               /\ fileOps' = conv.fileOps
               /\ fileSeq' = conv.fileSeq
               /\ playerLog' = [playerLog EXCEPT !.loads = @ + 1]
          ELSE /\ fileOps' = cleaned
               /\ UNCHANGED <<state, fileSeq, playerLog>>
  /\ UNCHANGED <<audioUriRef, playing, mounted, disk, autoPlay,
                 notPlayer>>

\* The then-callback of the [base64Audio] effect, run when
\* convertBase64ToAudio has resolved: with autoPlay it calls the playAudio
\* of the effect's render, which reads that render's state.audioUri
\* (seen): without one it reports 'No audio available to play' and returns,
\* with one it awaits setupAudioMode and player.play().
AutoPlayAfterLoad(ops, log, seen) ==
  IF ~autoPlay THEN [fileOps |-> ops, playerLog |-> log]
  ELSE IF seen = NoFile
    THEN [fileOps |-> ops,
          playerLog |-> [log EXCEPT !.onError = "No audio available to play"]]
    ELSE [fileOps |-> Append(ops, [kind |-> "autoplay", file |-> seen,
                                   seen |-> seen]),
          playerLog |-> log]

\* writeAsStringAsync completes.  Resolved: the file is on disk, the ref and
\* state.audioUri name it, loading ends; the player (useAudioPlayer of
\* state.audioUri) gets the new source.  Rejected: loading ends with the
\* error flagged.  State updates of an unmounted component are dropped.
WriteCompletes(i, ok) ==
  /\ i \in DOMAIN fileOps /\ fileOps[i].kind = "write"
  /\ fileOps' = IF ok THEN AutoPlayAfterLoad(RemoveAt(fileOps, i), playerLog,
                                             fileOps[i].seen).fileOps
                      ELSE RemoveAt(fileOps, i)
  /\ IF ok
       THEN /\ disk' = disk \cup {fileOps[i].file}
            /\ audioUriRef' = fileOps[i].file
            /\ state' = IF mounted
                          THEN [state EXCEPT !.isLoading = FALSE,
                                             !.audioUri = fileOps[i].file]
                          ELSE state
            /\ playing' = FALSE
            /\ playerLog' = AutoPlayAfterLoad(RemoveAt(fileOps, i), playerLog,
                                              fileOps[i].seen).playerLog
       ELSE /\ state' = IF mounted
                          THEN [state EXCEPT !.isLoading = FALSE,
                                  !.hasError = TRUE,
                                  !.errorMessage = "Failed to convert audio for playback"]
                          ELSE state
            /\ playerLog' = [playerLog EXCEPT !.faults = TRUE,
                   !.onError = "Failed to convert audio for playback"]
            /\ UNCHANGED <<disk, audioUriRef, playing>>
  /\ UNCHANGED <<base64Audio, mounted, fileSeq, autoPlay,
                 notPlayer>>

\* deleteAsync of cleanupAudioFile completes (a rejection is caught); either
\* way the ref is then cleared.
DeleteCompletes(i, ok) ==
  /\ i \in DOMAIN fileOps /\ fileOps[i].kind = "delete"
  /\ fileOps' = RemoveAt(fileOps, i)
  /\ disk' = IF ok THEN disk \ {fileOps[i].file} ELSE disk
  /\ playerLog' = [playerLog EXCEPT !.faults = @ \/ ~ok]
  /\ audioUriRef' = NoFile
  /\ UNCHANGED <<base64Audio, state, playing, mounted, fileSeq, autoPlay,
                 notPlayer>>

\* The playAudio called by the effect's then-callback gets past its
\* awaits: player.play() of the player that render held resolves
\* (isPlaying is set, onPlay called) or throws (the catch block flags the
\* error and calls onError).
AutoPlayCompletes(i, ok) ==
  /\ i \in DOMAIN fileOps /\ fileOps[i].kind = "autoplay"
  /\ fileOps' = RemoveAt(fileOps, i)
  /\ IF ok
       THEN /\ playing' = TRUE
            /\ state' = IF mounted THEN [state EXCEPT !.isPlaying = TRUE]
                                   ELSE state
            /\ UNCHANGED playerLog
       ELSE /\ state' = IF mounted
                          THEN [state EXCEPT !.hasError = TRUE,
                                             !.errorMessage = "Failed to play audio"]
                          ELSE state
            /\ playerLog' = [playerLog EXCEPT !.onError = "Failed to play audio"]
            /\ UNCHANGED playing
  /\ UNCHANGED <<base64Audio, audioUriRef, mounted, disk, fileSeq, autoPlay,
                 notPlayer>>

\* togglePlayback while not playing: playAudio.
playAudio(ok) ==
  /\ mounted /\ ~isDisabled(state, PlayerDisabledProp) /\ ~state.isPlaying
  /\ IF ok
       THEN /\ playing' = TRUE
            /\ state' = [state EXCEPT !.isPlaying = TRUE]
            /\ UNCHANGED playerLog
       ELSE /\ state' = [state EXCEPT !.hasError = TRUE,
                                      !.errorMessage = "Failed to play audio"]
            /\ playerLog' = [playerLog EXCEPT !.onError = "Failed to play audio"]
            /\ UNCHANGED playing
  /\ UNCHANGED <<base64Audio, audioUriRef, mounted, disk, fileOps, fileSeq,
                 autoPlay,
                 notPlayer>>

\* togglePlayback while playing: pauseAudio.  A failure is only reported
\* through onError.
pauseAudio(ok) ==
  /\ mounted /\ ~isDisabled(state, PlayerDisabledProp) /\ state.isPlaying
  /\ IF ok
       THEN /\ playing' = FALSE
            /\ state' = [state EXCEPT !.isPlaying = FALSE]
            /\ UNCHANGED playerLog
       ELSE /\ playerLog' = [playerLog EXCEPT !.onError = "Failed to pause audio"]
            /\ UNCHANGED <<playing, state>>
  /\ UNCHANGED <<base64Audio, audioUriRef, mounted, disk, fileOps, fileSeq,
                 autoPlay,
                 notPlayer>>

\* replayAudio: seek to the start and play.  A failure is only reported
\* through onError.
replayAudio(ok) ==
  /\ mounted /\ ReplayEnabled(state, PlayerDisabledProp)
  /\ IF ok
       THEN /\ playing' = TRUE
            /\ state' = [state EXCEPT !.isPlaying = TRUE]
            /\ UNCHANGED playerLog
       ELSE /\ playerLog' = [playerLog EXCEPT !.onError = "Failed to replay audio"]
            /\ UNCHANGED <<playing, state>>
  /\ UNCHANGED <<base64Audio, audioUriRef, mounted, disk, fileOps, fileSeq,
                 autoPlay,
                 notPlayer>>

\* The clip plays to its end.
ClipEnds ==
  /\ playing
  /\ playing' = FALSE
  /\ UNCHANGED <<base64Audio, state, audioUriRef, mounted, disk, fileOps,
                 fileSeq, playerLog, autoPlay,
                 notPlayer>>

\* handleStatusUpdate (every 100 ms): state.isPlaying follows player.playing.
handleStatusUpdate ==
  /\ mounted
  /\ state.isPlaying # playing
  /\ state' = [state EXCEPT !.isPlaying = playing]
  /\ UNCHANGED <<base64Audio, audioUriRef, playing, mounted, disk, fileOps,
                 fileSeq, playerLog, autoPlay,
                 notPlayer>>

\* state.isPlaying as the unmount cleanup sees it: the effect has no
\* dependencies, so its closure holds the state of the first render.
IsPlayingSeenByUnmountCleanup == FALSE

\* The component is unmounted: the cleanup of the [base64Audio] effect calls
\* cleanupAudioFile, then the cleanup of the mount effect pauses the player
\* if it sees state.isPlaying and calls cleanupAudioFile again.
Unmount ==
  /\ mounted
  /\ mounted' = FALSE
  /\ fileOps' = cleanupAudioFile(audioUriRef,
                                 cleanupAudioFile(audioUriRef, fileOps))
  /\ playing' = IF IsPlayingSeenByUnmountCleanup THEN FALSE ELSE playing
  /\ playerLog' = [playerLog EXCEPT
                     !.unmountedPlaying = state.isPlaying /\ playing,
                     !.unmountedFile = state.audioUri]
  /\ UNCHANGED <<base64Audio, state, audioUriRef, disk, fileSeq, autoPlay,
                 notPlayer>>

\* A mounted player before its first effect has run, with no payload.
PlayerAtRest ==
  /\ base64Audio = NoAudio
  /\ state = [isLoading |-> FALSE, isPlaying |-> FALSE, hasError |-> FALSE,
              errorMessage |-> "", audioUri |-> NoFile]
  /\ audioUriRef = NoFile
  /\ playing = FALSE
  /\ mounted = TRUE
  /\ disk = {}
  /\ fileOps = <<>>
  /\ fileSeq = 0
  /\ playerLog = [loads |-> 0, faults |-> FALSE, unmountedPlaying |-> FALSE,
                  unmountedFile |-> NoFile, onError |-> ""]

\* The same, rendered without the autoPlay prop.
IdlePlayerVars == PlayerAtRest /\ autoPlay = FALSE

InitPlayerVars == IdlePlayerVars

\* A player mounted with payload b, as VoiceChatScreen renders one for an
\* assistant message with audio: the [base64Audio] effect has run
\* convertBase64ToAudio up to its await.
MountedWithPayload(b) ==
  LET conv == convertBase64ToAudio(
                [isLoading |-> FALSE, isPlaying |-> FALSE, hasError |-> FALSE,
                 errorMessage |-> "", audioUri |-> NoFile], <<>>, 0)
  IN /\ base64Audio = b
     /\ state = conv.state
     /\ fileOps = conv.fileOps
     /\ fileSeq = conv.fileSeq
     /\ audioUriRef = NoFile
     /\ playing = FALSE
     /\ mounted = TRUE
     /\ autoPlay = FALSE
     /\ disk = {}
     /\ playerLog = [loads |-> 1, faults |-> FALSE, unmountedPlaying |-> FALSE,
                     unmountedFile |-> NoFile, onError |-> ""]

\* ------------------------------------------------------------------------
\* Audio Capture Controller
\* ------------------------------------------------------------------------
NoTimer == 0

\* The record button of VoiceRecorder: the component does not read its
\* `disabled` prop; only a denied permission disables the button.
RecordButtonDisabled(disabledProp, permission) == permission = "denied"

RecLogAdd(log, field, k) == [log EXCEPT ![field] = @ + k]

\* The timer set left after clearTimeout(ref).
clearTimeout(ts, ref) == ts \ {ref}

\* A requestPermissions that refuses without telling anyone.
requestPermissions_SilentDenial(answer) ==
  IF answer = "granted"
    THEN [status |-> "granted", onError |-> 0, alerts |-> 0, result |-> TRUE]
    ELSE [status |-> "undetermined", onError |-> 0, alerts |-> 0,
          result |-> FALSE]

\* requestPermissions after its await, given the OS's answer (or a rejected
\* request): the new permission status, whether onError and Alert.alert are
\* called, and the boolean returned.
requestPermissions(answer) ==
  CASE answer = "granted" ->
         [status |-> "granted", onError |-> 0, alerts |-> 0, result |-> TRUE]
    [] answer = "denied" ->
         [status |-> "denied", onError |-> 1, alerts |-> 1, result |-> FALSE]
    [] OTHER ->
         [status |-> "denied", onError |-> 1, alerts |-> 0, result |-> FALSE]

\* What requestPermissions can be answered.
PermissionAnswers == {osPermission, "rejected"}

\* The phase of the RecordingState (spec section 3), derived from the
\* controller's state.
Phase ==
  IF stops # <<>> THEN "stopping"
  ELSE IF recorder.recording THEN "recording"
  ELSE IF starts # <<>> THEN "permissionPending"
  ELSE "idle"

\* The user changes the microphone permission in the OS settings.
OsPermissionChanges ==
  /\ osPermission' = IF osPermission = "granted" THEN "denied" ELSE "granted"
  /\ UNCHANGED <<permissionStatus, mountPermission, isRecording, recorder,
                 timeoutRef, timers, starts, stops, captureDisk, recLog,
                 denied,
                 recorderMounted, notRecorder>>

\* The mount effect's requestPermissions resolves.
MountPermissionResolves(answer) ==
  /\ mountPermission
  /\ mountPermission' = FALSE
  /\ LET r == requestPermissions(answer)
     IN /\ permissionStatus' = r.status
        /\ recLog' = RecLogAdd(RecLogAdd(recLog, "onError", r.onError),
                               "alerts", r.alerts)
  /\ UNCHANGED <<osPermission, isRecording, recorder, timeoutRef, timers,
                 starts, stops, captureDisk, denied,
                 recorderMounted, notRecorder>>

\* toggleRecording while the rendered isRecording is false: startRecording
\* up to its first await (requestPermissions if the status is not granted,
\* else the audio-mode / prepare / record sequence).
PressStart ==
  /\ ~RecordButtonDisabled(FALSE, permissionStatus)
  /\ ~isRecording
  /\ recLog.attempts < MaxAttempts
  /\ starts' = Append(starts,
                 [ n  |-> recLog.attempts + 1,
                   pc |-> IF permissionStatus # "granted" THEN "perm"
                                                          ELSE "prep" ])
  /\ recLog' = RecLogAdd(recLog, "attempts", 1)
  /\ UNCHANGED <<permissionStatus, osPermission, mountPermission, isRecording,
                 recorder, timeoutRef, timers, stops, captureDisk,
                 denied,
                 recorderMounted, notRecorder>>

\* startRecording: its requestPermissions resolves.  Not granted: the call
\* returns.  Granted: the audio-mode / prepare / record sequence is awaited.
\* recLog.denied is the history of the attempts the OS did not grant.
StartPermissionResolves(i, answer) ==
  /\ i \in DOMAIN starts /\ starts[i].pc = "perm"
  /\ denied' = IF answer = "granted" THEN denied ELSE denied \cup {starts[i].n}
  /\ LET r == requestPermissions(answer)
     IN /\ permissionStatus' = r.status
        /\ IF r.result
             THEN /\ starts' = [starts EXCEPT ![i].pc = "prep"]
                  /\ recLog' = RecLogAdd(RecLogAdd(recLog, "onError", r.onError),
                                         "alerts", r.alerts)
             ELSE /\ starts' = RemoveAt(starts, i)
                  /\ recLog' = RecLogAdd(RecLogAdd(recLog, "onError", r.onError),
                                         "alerts", r.alerts)
  /\ UNCHANGED <<osPermission, mountPermission, isRecording, recorder,
                 timeoutRef, timers, stops, captureDisk,
                 recorderMounted, notRecorder>>

\* startRecording: setAudioModeAsync, prepareToRecordAsync and record() are
\* done.  Resolved: the recorder records into a new file, onRecordingStart
\* is called and the 60 s timer is set (the ref is overwritten).  Rejected:
\* the catch block calls onError.
StartPrepCompletes(i, ok) ==
  /\ i \in DOMAIN starts /\ starts[i].pc = "prep"
  /\ starts' = RemoveAt(starts, i)
  /\ IF ok
       THEN /\ recorder' = [recording |-> TRUE, uri |-> starts[i].n]
            /\ captureDisk' = captureDisk \cup {starts[i].n}
            /\ timeoutRef' = starts[i].n
            /\ timers' = timers \cup {starts[i].n}
            /\ recLog' = [recLog EXCEPT !.onRecordingStart = @ + 1,
                                        !.stopRequested = FALSE]
       ELSE /\ recLog' = RecLogAdd(recLog, "onError", 1)
            /\ UNCHANGED <<recorder, captureDisk, timeoutRef, timers>>
  /\ UNCHANGED <<permissionStatus, osPermission, mountPermission, isRecording,
                 stops, denied,
                 recorderMounted, notRecorder>>

\* useAudioRecorderState reports a changed isRecording: the component
\* renders again and, isRecording being a dependency of the cleanup effect,
\* the previous effect is cleaned up with the values it closed over:
\* clearTimeout(timeoutRef.current) if the ref is set (the ref is kept), and
\* audioRecorder.stop() if the previous isRecording was true.
RecorderStateChanges ==
  /\ isRecording # recorder.recording
  /\ isRecording' = recorder.recording
  /\ timers' = IF timeoutRef # NoTimer THEN clearTimeout(timers, timeoutRef)
                                       ELSE timers
  /\ recorder' = IF isRecording THEN [recorder EXCEPT !.recording = FALSE]
                                ELSE recorder
  /\ UNCHANGED <<permissionStatus, osPermission, mountPermission, timeoutRef,
                 starts, stops, captureDisk, recLog, denied,
                 recorderMounted, notRecorder>>

\* stopRecording up to its await: the timer of the ref is cleared, the ref
\* set to null, audioRecorder.stop() awaited.
stopRecording ==
  /\ timers' = IF timeoutRef # NoTimer THEN clearTimeout(timers, timeoutRef)
                                       ELSE timers
  /\ timeoutRef' = NoTimer
  /\ stops' = Append(stops, [pc |-> "stop", uri |-> NoFile])
  /\ recLog' = [recLog EXCEPT !.stopCalls = @ + 1, !.stopRequested = TRUE]

\* toggleRecording while the rendered isRecording is true.
PressStop ==
  /\ ~RecordButtonDisabled(FALSE, permissionStatus)
  /\ isRecording
  /\ recLog.stopCalls < MaxStops
  /\ stopRecording
  /\ UNCHANGED <<permissionStatus, osPermission, mountPermission, isRecording,
                 recorder, starts, captureDisk, denied,
                 recorderMounted, notRecorder>>

\* The 60 s timer fires: its callback calls stopRecording.
TimerFires(t) ==
  /\ t \in timers
  /\ recLog.stopCalls < MaxStops
  /\ timers' = IF timeoutRef # NoTimer
                 THEN clearTimeout(timers \ {t}, timeoutRef)
                 ELSE timers \ {t}
  /\ timeoutRef' = NoTimer
  /\ stops' = Append(stops, [pc |-> "stop", uri |-> NoFile])
  /\ recLog' = [recLog EXCEPT !.stopCalls = @ + 1, !.stopRequested = TRUE]
  /\ UNCHANGED <<permissionStatus, osPermission, mountPermission, isRecording,
                 recorder, starts, captureDisk, denied,
                 recorderMounted, notRecorder>>

\* stopRecording: audioRecorder.stop() resolves; onRecordingStop is called;
\* with a uri the file is read (convertToBase64), without one onError is
\* called.  A rejected stop() goes to the catch block (onError).
StopCompletes(i, ok) ==
  /\ i \in DOMAIN stops /\ stops[i].pc = "stop"
  /\ IF ok
       THEN /\ recorder' = [recorder EXCEPT !.recording = FALSE]
            /\ IF recorder.uri # NoFile
                 THEN /\ stops' = [stops EXCEPT ![i] = [pc |-> "encode",
                                                        uri |-> recorder.uri]]
                      /\ recLog' = RecLogAdd(recLog, "onRecordingStop", 1)
                 ELSE /\ stops' = RemoveAt(stops, i)
                      /\ recLog' = RecLogAdd(
                                     RecLogAdd(recLog, "onRecordingStop", 1),
                                     "onError", 1)
       ELSE /\ stops' = RemoveAt(stops, i)
            /\ recLog' = RecLogAdd(recLog, "onError", 1)
            /\ UNCHANGED recorder
  /\ UNCHANGED <<permissionStatus, osPermission, mountPermission, isRecording,
                 timeoutRef, timers, starts, captureDisk, denied,
                 recorderMounted, notRecorder>>

\* An emit after which the call ends without deleting the file.
EmitAndDelete_SkipsDelete(sts, i, log) ==
  [ stops  |-> RemoveAt(sts, i),
    recLog |-> [log EXCEPT !.payloads = Append(@, sts[i].uri)] ]

\* stopRecording: after a successful convertToBase64 the payload is emitted
\* (onAudioRecorded) and the delete of the file is awaited.
EmitAndDelete(sts, i, log) ==
  [ stops  |-> [sts EXCEPT ![i].pc = "delete"],
    recLog |-> [log EXCEPT !.payloads = Append(@, sts[i].uri)] ]

\* stopRecording: a failed convertToBase64 throws to the outer catch block,
\* which calls onError; the call ends there.
EncodeFailed(sts, i, log) ==
  [ stops  |-> RemoveAt(sts, i),
    recLog |-> RecLogAdd(log, "onError", 1) ]

\* stopRecording: readAsStringAsync of convertToBase64 completes; it can
\* resolve only if the file exists.
EncodeCompletes(i, ok) ==
  /\ i \in DOMAIN stops /\ stops[i].pc = "encode"
  /\ ok => stops[i].uri \in captureDisk
  /\ LET next == IF ok THEN EmitAndDelete(stops, i, recLog)
                       ELSE EncodeFailed(stops, i, recLog)
     IN /\ stops' = next.stops
        /\ recLog' = next.recLog
  /\ UNCHANGED <<permissionStatus, osPermission, mountPermission, isRecording,
                 recorder, timeoutRef, timers, starts, captureDisk,
                 denied,
                 recorderMounted, notRecorder>>

\* stopRecording: deleteAsync(uri, idempotent) completes; a rejection is
\* caught and logged.
CaptureDeleteCompletes(i, ok) ==
  /\ i \in DOMAIN stops /\ stops[i].pc = "delete"
  /\ stops' = RemoveAt(stops, i)
  /\ captureDisk' = IF ok THEN captureDisk \ {stops[i].uri} ELSE captureDisk
  /\ recLog' = [recLog EXCEPT !.deleteFaults = @ \/ ~ok]
  /\ UNCHANGED <<permissionStatus, osPermission, mountPermission, isRecording,
                 recorder, timeoutRef, timers, starts, denied,
                 recorderMounted, notRecorder>>

\* The component is unmounted: the cleanup of the [audioRecorder,
\* isRecording] effect clears the timer of the ref and, if the rendered
\* isRecording is true, calls audioRecorder.stop(); no file is touched.
\* recLog.unmountedUri is the file of the recording then in progress.
UnmountRecorder ==
  /\ recorderMounted
  /\ recorderMounted' = FALSE
  /\ timers' = IF timeoutRef # NoTimer THEN clearTimeout(timers, timeoutRef)
                                       ELSE timers
  /\ recorder' = IF isRecording THEN [recorder EXCEPT !.recording = FALSE]
                                ELSE recorder
  /\ recLog' = [recLog EXCEPT !.unmountedUri =
                   IF recorder.recording THEN recorder.uri ELSE NoFile]
  /\ UNCHANGED <<permissionStatus, osPermission, mountPermission, isRecording,
                 timeoutRef, starts, stops, captureDisk, denied, notRecorder>>

\* handleRecordingError, the onError the screen gives the recorder: one
\* Alert.alert per call.  The alerts raised for n onError calls.
handleRecordingError(n) == n

\* A recorder at rest with the given permission status.
IdleRecorderVars(status) ==
  /\ permissionStatus = status
  /\ osPermission = "granted"
  /\ mountPermission = FALSE
  /\ isRecording = FALSE
  /\ recorder = [recording |-> FALSE, uri |-> NoFile]
  /\ timeoutRef = NoTimer
  /\ timers = {}
  /\ starts = <<>>
  /\ stops = <<>>
  /\ captureDisk = {}
  /\ recLog = [ attempts |-> 0, stopCalls |-> 0, onError |-> 0, alerts |-> 0,
                onRecordingStart |-> 0, onRecordingStop |-> 0,
                payloads |-> <<>>, stopRequested |-> FALSE,
                deleteFaults |-> FALSE, unmountedUri |-> NoFile ]
  /\ denied = {}
  /\ recorderMounted = TRUE

\* The recorder just mounted: the permission status is undetermined, the
\* mount effect has issued its permission request, the OS will answer
\* either way.
InitRecorderVars ==
  /\ permissionStatus = "undetermined"
  /\ osPermission \in {"granted", "denied"}
  /\ mountPermission = TRUE
  /\ isRecording = FALSE
  /\ recorder = [recording |-> FALSE, uri |-> NoFile]
  /\ timeoutRef = NoTimer
  /\ timers = {}
  /\ starts = <<>>
  /\ stops = <<>>
  /\ captureDisk = {}
  /\ recLog = [ attempts |-> 0, stopCalls |-> 0, onError |-> 0, alerts |-> 0,
                onRecordingStart |-> 0, onRecordingStop |-> 0,
                payloads |-> <<>>, stopRequested |-> FALSE,
                deleteFaults |-> FALSE, unmountedUri |-> NoFile ]
  /\ denied = {}
  /\ recorderMounted = TRUE

\* ------------------------------------------------------------------------
\* Turn Orchestrator
\* ------------------------------------------------------------------------
\* The ids of SUPPORTED_LANGUAGES.
SupportedLanguageIds == {"en", "kn", "hi", "od"}

\* SUPPORTED_LANGUAGES, with the fields the helpers read.
SUPPORTED_LANGUAGES ==
  << [id |-> "en", speechRecognitionCode |-> "en-IN", textApiCode |-> "en"],
     [id |-> "kn", speechRecognitionCode |-> "kn-IN", textApiCode |-> "kn"],
     [id |-> "hi", speechRecognitionCode |-> "hi-IN", textApiCode |-> "hi"],
     [id |-> "od", speechRecognitionCode |-> "hi-IN", textApiCode |-> "od"] >>

\* Ids the language context can hold: i18n's current language is any
\* string, among them ids that SUPPORTED_LANGUAGES does not list.
UiLanguageIds == SupportedLanguageIds \cup {"ta", "en-US", ""}

\* The value of a property read through ?. on a missing object.
Undefined == "undefined"

\* SUPPORTED_LANGUAGES.find(lang => lang.id === languageId): the first
\* matching entry, as a sequence of at most one record.
FindLanguage(languageId) ==
  LET hits == { i \in DOMAIN SUPPORTED_LANGUAGES :
                  SUPPORTED_LANGUAGES[i].id = languageId }
  IN IF hits = {} THEN <<>>
     ELSE << SUPPORTED_LANGUAGES[CHOOSE i \in hits : \A j \in hits : i <= j] >>

\* a || b on strings: b when a is undefined or empty.
OrElse(a, b) == IF a = Undefined \/ a = "" THEN b ELSE a

\* getSpeechRecognitionCode without the || 'en-US' fallback.
getSpeechRecognitionCode_NoFallback(languageId) ==
  LET language == FindLanguage(languageId)
  IN IF language = <<>> THEN Undefined ELSE language[1].speechRecognitionCode

getSpeechRecognitionCode(languageId) ==
  LET language == FindLanguage(languageId)
  IN OrElse(IF language = <<>> THEN Undefined
            ELSE language[1].speechRecognitionCode, "en-US")

getTextApiCode(languageId) ==
  LET language == FindLanguage(languageId)
  IN OrElse(IF language = <<>> THEN Undefined
            ELSE language[1].textApiCode, "en")

\* Texts the user can type: characters are " " and letters.
TextInputs == { <<>>, <<" ">>, <<"q">>, <<" ", "q">> }

\* Payloads the capture controller can hand over.
AudioPayloads == { "clip" }

RECURSIVE TrimLeft(_)
TrimLeft(s) == IF s # <<>> /\ Head(s) = " " THEN TrimLeft(Tail(s)) ELSE s

RECURSIVE TrimRight(_)
TrimRight(s) ==
  IF s # <<>> /\ s[Len(s)] = " " THEN TrimRight(SubSeq(s, 1, Len(s) - 1)) ELSE s

\* String.prototype.trim
Trim(s) == TrimRight(TrimLeft(s))

\* t('voiceChat.welcomeMessage') and t('voiceChat.errorMessage')
WelcomeText == "welcomeMessage"
ErrorText == "errorMessage"

\* An id built from the type and the clock alone (one clock tick).
NewMessage_IdWithoutCounter(counter, type, content, audioData, turn) ==
  [ id        |-> <<type, 0>>,
    type      |-> type,
    content   |-> content,
    isAudio   |-> (audioData # NoAudio),
    audioData |-> audioData,
    turn      |-> turn ]

\* The ChatMessage built by addMessage; `turn` names the turn that added it:
\* <<kind, n>> with kind "text" or "voice" (<<"mount", 0>> for the welcome
\* message).
NewMessage(counter, type, content, audioData, turn) ==
  [ id        |-> <<type, counter>>,
    type      |-> type,
    content   |-> content,
    isAudio   |-> (audioData # NoAudio),
    audioData |-> audioData,
    turn      |-> turn ]

\* An addMessage that puts the new message in front.
addMessage_Prepend(msgs, counter, type, content, audioData, turn) ==
  <<NewMessage(counter + 1, type, content, audioData, turn)>> \o msgs

\* addMessage: the counter is incremented first, then the message appended.
addMessage(msgs, counter, type, content, audioData, turn) ==
  Append(msgs, NewMessage(counter + 1, type, content, audioData, turn))

\* Responses of the text-turn contract (success, agent_response_translated,
\* agent_response) and a rejected call.
TextResponses ==
  [ rejects : {FALSE}, success : BOOLEAN,
    agent_response_translated : {"", "uttara"}, agent_response : {"answer"} ]
  \cup { [ rejects |-> TRUE, success |-> FALSE,
           agent_response_translated |-> "", agent_response |-> "" ] }

\* Responses of speechToText: every missing field is defaulted
\* (success || false, original_transcript || '', response_audio_data || '').
VoiceResponses ==
  [ rejects : {FALSE}, success : BOOLEAN,
    original_transcript : {"rice price today"},
    agent_response_translated : {"uttara"},
    response_audio_data : {NoAudio, "mp3"} ]
  \cup { [ rejects |-> TRUE, success |-> FALSE, original_transcript |-> "",
           agent_response_translated |-> "", response_audio_data |-> NoAudio ] }

\* voiceChatService.sendTextInvoke(userMessage, code): the request in flight,
\* with the session identity attached.
sendTextInvoke(turn, userMessage, languageCode) ==
  [ turn |-> <<"text", turn>>, kind |-> "text", payload |-> userMessage,
    language_code |-> languageCode,
    user_id |-> userId, session_id |-> sessionId ]

\* The literal '123' that speechToText sends as user_id and session_id.
HardCodedId == 123

\* voiceChatService.speechToText(recordedAudio, code): the request in flight.
speechToText(turn, recordedAudio, languageCode) ==
  [ turn |-> <<"voice", turn>>, kind |-> "voice", payload |-> <<recordedAudio>>,
    language_code |-> languageCode,
    user_id |-> HardCodedId, session_id |-> HardCodedId ]

\* A success branch that appends the assistant message before the user one.
VoiceSuccessMessages_AssistantFirst(msgs, counter, recordedAudio, r, turn) ==
  addMessage(
    addMessage(msgs, counter, "assistant", r.agent_response_translated,
               r.response_audio_data, turn),
    counter + 1, "user", r.original_transcript, recordedAudio, turn)

\* A success branch that drops the response audio.
VoiceSuccessMessages_NoResponseAudio(msgs, counter, recordedAudio, r, turn) ==
  addMessage(
    addMessage(msgs, counter, "user", r.original_transcript, recordedAudio, turn),
    counter + 1, "assistant", r.agent_response_translated, NoAudio, turn)

\* The history after the success branch of handleAudioRecorded: the user
\* message (transcript, with the recorded clip) and then the assistant
\* message (with the response audio), both in the same synchronous block.
VoiceSuccessMessages(msgs, counter, recordedAudio, r, turn) ==
  addMessage(
    addMessage(msgs, counter, "user", r.original_transcript, recordedAudio, turn),
    counter + 1, "assistant", r.agent_response_translated,
    r.response_audio_data, turn)

\* The assistant message a settled text turn appends: the reply on success,
\* the generic failure notice from the catch block otherwise.
TextReplyContent(r) ==
  IF ~r.rejects /\ r.success
    THEN (IF r.agent_response_translated # ""
            THEN r.agent_response_translated ELSE r.agent_response)
    ELSE ErrorText

\* A failure path that appends the notice where the failure is detected and
\* again in the catch block.
TextSettleMessages_NoticeTwice(msgs, counter, r, turn) ==
  IF ~r.rejects /\ ~r.success
    THEN addMessage(
           addMessage(msgs, counter, "assistant", ErrorText, NoAudio, turn),
           counter + 1, "assistant", ErrorText, NoAudio, turn)
    ELSE addMessage(msgs, counter, "assistant", TextReplyContent(r), NoAudio,
                    turn)

\* The history after a text turn settles: the reply is appended in the try
\* block; a rejected call, an unreadable response or success false throws
\* to the catch block, which appends the failure notice.
TextSettleMessages(msgs, counter, r, turn) ==
  addMessage(msgs, counter, "assistant", TextReplyContent(r), NoAudio, turn)

\* The turn log entry of a turn just submitted: the turns whose call is
\* still awaited are remembered.
Submitted(kind) ==
  [ kind |-> kind, outcome |-> "pending", responseAudio |-> NoAudio,
    pendingAtSubmit |-> {c.turn[2] : c \in calls} ]

\* The turn log once turn n has settled, with the audio of the response.
Settled(n, ok, audio) ==
  [turnLog EXCEPT ![n].outcome = IF ok THEN "ok" ELSE "failed",
                  ![n].responseAudio = audio]

\* onChangeText={setTextInput}; the field is editable while !isSending.
TypeText(s) ==
  /\ ~isSending
  /\ s # textInput
  /\ textInput' = s
  /\ UNCHANGED <<messages, isProcessing, isSending, messageIdCounter, calls,
                 turnSeq, alertCount, currentLanguage, languageChanges,
                 turnLog, notTurn>>

\* handleTextSend up to its await: guard, clear the input, set isSending,
\* append the user message, dispatch the request.
handleTextSend ==
  /\ ~(Trim(textInput) = <<>> \/ isSending)
  /\ turnSeq < MaxTurns
  /\ LET userMessage == Trim(textInput)
         turn == turnSeq + 1
         speechLanguageCode == getSpeechRecognitionCode(currentLanguage)
     IN /\ textInput' = <<>>
        /\ isSending' = TRUE
        /\ messages' = addMessage(messages, messageIdCounter, "user",
                                  userMessage, NoAudio, <<"text", turn>>)
        /\ messageIdCounter' = messageIdCounter + 1
        /\ calls' = calls \cup
                      {sendTextInvoke(turn, userMessage, speechLanguageCode)}
        /\ turnSeq' = turn
        /\ turnLog' = Append(turnLog, Submitted("text"))
  /\ UNCHANGED <<isProcessing, alertCount, currentLanguage, languageChanges,
                 notTurn>>

\* A busy flag that is cleared only when the awaited call did not throw.
BusyAfterSettle_NoFinally(r) == r.rejects

\* The busy flag (isSending, isProcessing) after the handler's finally
\* block, whatever response r the call settled with.
BusyAfterSettle(r) == FALSE

\* handleTextSend after its await: the reply or, from the catch block, the
\* failure notice is appended; finally isSending is cleared.
TextTurnSettles(c, r) ==
  /\ c \in calls /\ c.kind = "text"
  /\ calls' = calls \ {c}
  /\ messages' = TextSettleMessages(messages, messageIdCounter, r, c.turn)
  /\ messageIdCounter' = messageIdCounter + (Len(messages') - Len(messages))
  /\ isSending' = BusyAfterSettle(r)
  /\ turnLog' = Settled(c.turn[2], ~r.rejects /\ r.success, NoAudio)
  /\ UNCHANGED <<textInput, isProcessing, turnSeq, alertCount, currentLanguage,
                 languageChanges, notTurn>>

\* handleAudioRecorded up to its await, called by the capture controller's
\* onAudioRecorded: set isProcessing and dispatch.  The handler has no guard
\* of its own; the record button is the only gate.
handleAudioRecorded(recordedAudio) ==
  /\ ~RecordButtonDisabled(isProcessing \/ isSending, permissionStatus)
  /\ turnSeq < MaxTurns
  /\ isProcessing' = TRUE
  /\ calls' = calls \cup
                {speechToText(turnSeq + 1, recordedAudio,
                              getSpeechRecognitionCode(currentLanguage))}
  /\ turnSeq' = turnSeq + 1
  /\ turnLog' = Append(turnLog, Submitted("voice"))
  /\ UNCHANGED <<messages, textInput, isSending, messageIdCounter, alertCount,
                 currentLanguage, languageChanges, notTurn>>

\* handleAudioRecorded after its await: on success both messages are
\* appended; otherwise the catch block raises an alert; finally isProcessing
\* is cleared.
VoiceTurnSettles(c, r) ==
  /\ c \in calls /\ c.kind = "voice"
  /\ calls' = calls \ {c}
  /\ IF ~r.rejects /\ r.success
       THEN /\ messages' = VoiceSuccessMessages(messages, messageIdCounter,
                                                c.payload[1], r, c.turn)
            /\ messageIdCounter' = messageIdCounter + 2
            /\ UNCHANGED alertCount
       ELSE /\ alertCount' = alertCount + 1
            /\ UNCHANGED <<messages, messageIdCounter>>
  /\ isProcessing' = BusyAfterSettle(r)
  /\ turnLog' = Settled(c.turn[2], ~r.rejects /\ r.success,
                        r.response_audio_data)
  /\ UNCHANGED <<textInput, isSending, turnSeq, currentLanguage,
                 languageChanges, notTurn>>

\* The active language changes (LanguageProvider's setCurrentLanguage): the
\* screen renders with a new `t`, the effect that depends on [t] runs again,
\* increments the counter and sets the history to the welcome message alone.
LanguageChanges(l) ==
  /\ l # currentLanguage
  /\ languageChanges < MaxLanguageChanges
  /\ currentLanguage' = l
  /\ languageChanges' = languageChanges + 1
  /\ messageIdCounter' = messageIdCounter + 1
  /\ messages' = <<NewMessage(messageIdCounter + 1, "assistant", WelcomeText,
                              NoAudio, <<"mount", 0>>)>>
  /\ UNCHANGED <<textInput, isProcessing, isSending, calls, turnSeq,
                 alertCount, turnLog, notTurn>>

\* State after the screen has mounted: the mount effect has put the welcome
\* message (counter 1) in the history.
InitTurnVars ==
  /\ messages = <<NewMessage(1, "assistant", WelcomeText, NoAudio, <<"mount", 0>>)>>
  /\ textInput = <<>>
  /\ isProcessing = FALSE
  /\ isSending = FALSE
  /\ messageIdCounter = 1
  /\ calls = {}
  /\ turnSeq = 0
  /\ alertCount = 0
  /\ currentLanguage = "en"
  /\ languageChanges = 0
  /\ turnLog = <<>>

\* ------------------------------------------------------------------------
\* Diagnosis service: translateText
\* ------------------------------------------------------------------------

\* Texts handed to translateText (sequences of characters) and target
\* language codes.
TranslateTexts == { <<>>, <<" ">>, <<"q">>, <<"q", " ">> }
TargetLanguages == { "hi", "kn" }

\* What response.json() can deliver: a rejection (the body is not JSON),
\* null, an object without translated_text, or an object with one (empty
\* or not).
TranslationBodies ==
  { [kind |-> "invalid", translated_text |-> <<>>],
    [kind |-> "null", translated_text |-> <<>>],
    [kind |-> "noField", translated_text |-> <<>>],
    [kind |-> "object", translated_text |-> <<>>],
    [kind |-> "object", translated_text |-> <<"t">>] }

\* How fetch settles: rejected, or a response with its ok flag and body.
FetchOutcomes ==
  { [fetch |-> "rejected", ok |-> FALSE, body |-> b] :
      b \in { [kind |-> "invalid", translated_text |-> <<>>] } }
  \cup [fetch : {"resolved"}, ok : BOOLEAN, body : TranslationBodies]

\* A translateText call that has settled.
TranslateReturns(text, value, failed) ==
  [text |-> text, outcome |-> "value", value |-> value, failed |-> failed]
TranslateRejects(text) ==
  [text |-> text, outcome |-> "throws", value |-> <<>>, failed |-> TRUE]

\* translateText after `await fetch`: a rejection goes to the catch block,
\* a response that is not ok returns the text; otherwise json() is awaited.
AfterFetch(text, r) ==
  IF r.fetch = "rejected" \/ ~r.ok
    THEN [done |-> TRUE, ret |-> TranslateReturns(text, text, TRUE)]
    ELSE [done |-> FALSE, ret |-> TranslateReturns(text, text, TRUE)]

\* A last line that returns data.translated_text outside the try block and
\* without the || text fallback.
AfterJson_NoFallback(text, body) ==
  CASE body.kind \in {"invalid", "null"} -> TranslateRejects(text)
    [] body.kind = "noField" -> TranslateReturns(text, <<>>, TRUE)
    [] OTHER -> TranslateReturns(text, body.translated_text,
                                 body.translated_text = <<>>)

\* translateText after `await response.json()`: a rejection, and the
\* TypeError of reading a field of null, go to the catch block; otherwise
\* data.translated_text || text is returned.
AfterJson(text, body) ==
  CASE body.kind \in {"invalid", "null"} -> TranslateReturns(text, text, TRUE)
    [] body.kind = "noField" -> TranslateReturns(text, text, TRUE)
    [] OTHER -> IF body.translated_text = <<>>
                  THEN TranslateReturns(text, text, TRUE)
                  ELSE TranslateReturns(text, body.translated_text, FALSE)

\* translateText up to its first await: an empty or blank text is returned
\* at once; otherwise the request is sent.
translateText(text, targetLanguage) ==
  /\ Len(trResults) + Len(trCalls) < MaxTranslations
  /\ IF text = <<>> \/ Trim(text) = <<>>
       THEN /\ trResults' = Append(trResults, TranslateReturns(text, text, FALSE))
            /\ UNCHANGED trCalls
       ELSE /\ trCalls' = Append(trCalls, [text |-> text,
                                           target_language |-> targetLanguage,
                                           pc |-> "fetch",
                                           body |-> [kind |-> "invalid",
                                                     translated_text |-> <<>>]])
            /\ UNCHANGED trResults
  /\ UNCHANGED <<dxVars, notDiag>>

\* fetch settles for call i.
TranslateFetchSettles(i, r) ==
  /\ i \in DOMAIN trCalls /\ trCalls[i].pc = "fetch"
  /\ LET a == AfterFetch(trCalls[i].text, r)
     IN IF a.done
          THEN /\ trCalls' = RemoveAt(trCalls, i)
               /\ trResults' = Append(trResults, a.ret)
          ELSE /\ trCalls' = [trCalls EXCEPT ![i].pc = "json",
                                             ![i].body = r.body]
               /\ UNCHANGED trResults
  /\ UNCHANGED <<dxVars, notDiag>>

\* response.json() settles for call i.
TranslateJsonSettles(i) ==
  /\ i \in DOMAIN trCalls /\ trCalls[i].pc = "json"
  /\ trCalls' = RemoveAt(trCalls, i)
  /\ trResults' = Append(trResults, AfterJson(trCalls[i].text, trCalls[i].body))
  /\ UNCHANGED <<dxVars, notDiag>>

\* ------------------------------------------------------------------------
\* Crop health screen: image diagnosis turn
\* ------------------------------------------------------------------------

\* null, as parseAgentResponse returns it, and the absence of a raw text.
Null == "null"
NoRaw == <<>>

\* JSON documents the agent can send (each an opaque token) and the raw
\* responses built from them: texts are sequences of tokens, " " standing
\* for white space, JsonFence for three backticks followed by json, Fence
\* for three backticks, "x" for text that is not JSON.
JsonTexts == { "J", "K" }
JsonFence == "[fence]json"
Fence == "[fence]"
CleanJson(j) == << j >>
FencedJson(j) == << JsonFence, " ", j, " ", Fence >>
RawResponses ==
  { CleanJson(j) : j \in JsonTexts } \cup { FencedJson(j) : j \in JsonTexts }
    \cup { << " ", "J", " " >>, << Fence, " ", "J", " ", Fence >>,
           << "x" >>, << JsonFence, " ", "x", " ", Fence >>, NoRaw }

\* JSON.parse: the document, when the text is one document with optional
\* white space around it; otherwise it throws (Null here).
JSONparse(s) ==
  LET t == Trim(s)
  IN IF Len(t) = 1 /\ t[1] \in JsonTexts THEN t[1] ELSE Null

\* The two replace calls: the opening json fence with the white space after
\* it, and the closing fence with the white space before it.
StripOpeningFence(s) ==
  IF s # <<>> /\ Head(s) = JsonFence THEN TrimLeft(Tail(s)) ELSE s
StripClosingFence(s) ==
  IF s # <<>> /\ s[Len(s)] = Fence
    THEN TrimRight(SubSeq(s, 1, Len(s) - 1)) ELSE s

\* A parseAgentResponse that strips no fence.
parseAgentResponse_NoFence(rawResponse) == JSONparse(Trim(rawResponse))

\* parseAgentResponse: trim, strip a json fence, JSON.parse; null when
\* parsing throws.
parseAgentResponse(rawResponse) ==
  LET jsonString == Trim(rawResponse)
  IN IF jsonString # <<>> /\ Head(jsonString) = JsonFence
       THEN JSONparse(StripClosingFence(StripOpeningFence(jsonString)))
       ELSE JSONparse(jsonString)

\* DiagnosisResultScreen for the route params: the error view when the
\* diagnosis is unsuccessful or has no translatedDiagnosis, else the
\* diagnosis.  The error view shows diagnosis.error or a fixed text, never
\* the raw response.
DiagnosisResultScreen(response, translatedDiagnosis) ==
  IF ~response.success \/ translatedDiagnosis = Null
    THEN [view |-> "unable", shown |-> Null, rawShown |-> NoRaw]
    ELSE [view |-> "diagnosis", shown |-> translatedDiagnosis,
          rawShown |-> NoRaw]

\* What diagnoseCrop resolves to.
DiagnosisResponses == [success : BOOLEAN, raw_agent_response : RawResponses]

\* The catch and finally blocks of handleDiagnosis: one alert, both flags
\* cleared.
DiagnosisFailed(scr, raw) ==
  [scr EXCEPT !.isLoading = FALSE, !.isTranslating = FALSE, !.pc = "idle",
              !.alerts = @ + 1, !.raw = raw, !.parsed = Null]

\* An image is picked (camera or gallery).
SelectImage ==
  /\ ~diagnosisScreen.selectedImage
  /\ diagnosisScreen' = [diagnosisScreen EXCEPT !.selectedImage = TRUE]
  /\ UNCHANGED <<resultView, trCalls, trResults, notDiag>>

\* handleRetake
handleRetake ==
  /\ diagnosisScreen.selectedImage
  /\ diagnosisScreen' = [diagnosisScreen EXCEPT !.selectedImage = FALSE]
  /\ UNCHANGED <<resultView, trCalls, trResults, notDiag>>

\* handleDiagnosis up to `await diagnoseCrop`; the button is disabled
\* without an image and while loading or translating.
handleDiagnosis ==
  /\ diagnosisScreen.selectedImage
  /\ ~diagnosisScreen.isLoading /\ ~diagnosisScreen.isTranslating
  /\ diagnosisScreen.runs < MaxDiagnoses
  /\ diagnosisScreen' = [diagnosisScreen EXCEPT !.isLoading = TRUE,
                            !.pc = "diagnose", !.runs = @ + 1,
                            !.raw = NoRaw, !.parsed = Null]
  /\ UNCHANGED <<resultView, trCalls, trResults, notDiag>>

\* diagnoseCrop rejects: catch and finally.
DiagnoseRejects ==
  /\ diagnosisScreen.pc = "diagnose"
  /\ diagnosisScreen' = DiagnosisFailed(diagnosisScreen, NoRaw)
  /\ UNCHANGED <<resultView, trCalls, trResults, notDiag>>

\* diagnoseCrop resolves: the raw agent response is parsed; null throws to
\* the catch block; in English the result screen is opened at once,
\* otherwise translateDiagnosis is awaited.
DiagnoseResolves(response) ==
  /\ diagnosisScreen.pc = "diagnose"
  /\ LET parsedDiagnosis == parseAgentResponse(response.raw_agent_response)
     IN IF parsedDiagnosis = Null
          THEN /\ diagnosisScreen' = DiagnosisFailed(diagnosisScreen,
                                         response.raw_agent_response)
               /\ UNCHANGED resultView
          ELSE IF currentLanguage # "en"
            THEN /\ diagnosisScreen' = [diagnosisScreen EXCEPT
                        !.isTranslating = TRUE, !.pc = "translate",
                        !.raw = response.raw_agent_response,
                        !.parsed = parsedDiagnosis,
                        !.success = response.success]
                 /\ UNCHANGED resultView
            ELSE /\ diagnosisScreen' = [diagnosisScreen EXCEPT
                        !.isLoading = FALSE, !.isTranslating = FALSE,
                        !.pc = "idle", !.raw = response.raw_agent_response,
                        !.parsed = parsedDiagnosis,
                        !.success = response.success]
                 /\ resultView' = DiagnosisResultScreen(response, parsedDiagnosis)
  /\ UNCHANGED <<trCalls, trResults, notDiag>>

\* translateDiagnosis settles: resolved, the result screen is opened;
\* rejected (a section of the diagnosis is missing), catch and finally.
TranslateDiagnosisSettles(ok) ==
  /\ diagnosisScreen.pc = "translate"
  /\ IF ok
       THEN /\ diagnosisScreen' = [diagnosisScreen EXCEPT
                   !.isLoading = FALSE, !.isTranslating = FALSE, !.pc = "idle"]
            /\ resultView' = DiagnosisResultScreen(
                                [success |-> diagnosisScreen.success],
                                diagnosisScreen.parsed)
       ELSE /\ diagnosisScreen' = DiagnosisFailed(diagnosisScreen,
                                                  diagnosisScreen.raw)
            /\ UNCHANGED resultView
  /\ UNCHANGED <<trCalls, trResults, notDiag>>

\* No translateText call made yet; the crop health screen just opened.
IdleDiagVars ==
  /\ trCalls = <<>>
  /\ trResults = <<>>
  /\ diagnosisScreen = [selectedImage |-> FALSE, isLoading |-> FALSE,
                        isTranslating |-> FALSE, pc |-> "idle", runs |-> 0,
                        alerts |-> 0, raw |-> NoRaw, parsed |-> Null,
                        success |-> FALSE]
  /\ resultView = [view |-> "none", shown |-> Null, rawShown |-> NoRaw]

\* ------------------------------------------------------------------------
\* Specifications
\* ------------------------------------------------------------------------
InitTurn ==
  /\ InitTurnVars
  /\ InitSessVars
  /\ IdleDiagVars
  /\ InitPlayerVars
  /\ IdleRecorderVars("granted")

NextTurn ==
  \/ \E s \in TextInputs : TypeText(s)
  \/ handleTextSend
  \/ \E c \in calls, r \in TextResponses : TextTurnSettles(c, r)
  \/ \E b \in AudioPayloads : handleAudioRecorded(b)
  \/ \E c \in calls, r \in VoiceResponses : VoiceTurnSettles(c, r)
  \/ \E l \in SupportedLanguageIds : LanguageChanges(l)

SpecTurn == InitTurn /\ [][NextTurn]_vars

\* The turn orchestrator with every dispatched call settling in the end
\* (the service resolves or rejects each request it was given).
SpecTurnSettling ==
  /\ SpecTurn
  /\ WF_vars(\E c \in calls, r \in TextResponses : TextTurnSettles(c, r))
  /\ WF_vars(\E c \in calls, r \in VoiceResponses : VoiceTurnSettles(c, r))

\* The screen mounted under any language id the context can deliver.
InitTurnAnyLanguage ==
  /\ messages = <<NewMessage(1, "assistant", WelcomeText, NoAudio, <<"mount", 0>>)>>
  /\ textInput = <<>>
  /\ isProcessing = FALSE
  /\ isSending = FALSE
  /\ messageIdCounter = 1
  /\ calls = {}
  /\ turnSeq = 0
  /\ alertCount = 0
  /\ currentLanguage \in UiLanguageIds
  /\ languageChanges = 0
  /\ turnLog = <<>>
  /\ InitSessVars
  /\ IdleDiagVars
  /\ InitPlayerVars
  /\ IdleRecorderVars("granted")

SpecTurnAnyLanguage == InitTurnAnyLanguage /\ [][NextTurn]_vars

InitSession ==
  /\ InitTurnVars
  /\ InitSessVars
  /\ IdleDiagVars
  /\ InitPlayerVars
  /\ IdleRecorderVars("undetermined")

NextSession ==
  \/ \E p \in Callers : getUserId(p)
  \/ \E p \in Callers : getSessionId(p)
  \/ \E p \in Callers : initializeSession(p)
  \/ \E p \in Callers : startNewSession(p)
  \/ \E p \in Callers : clearSession(p)
  \/ \E p \in Callers, ok \in BOOLEAN : GetterReadCompletes(p, ok)
  \/ \E p \in Callers, ok \in BOOLEAN : InitSessionWriteCompletes(p, ok)
  \/ \E p \in Callers, ok \in BOOLEAN : InitUserReadCompletes(p, ok)
  \/ \E p \in Callers, ok \in BOOLEAN : InitUserWriteCompletes(p, ok)
  \/ \E p \in Callers, ok \in BOOLEAN : NewSessionWriteCompletes(p, ok)
  \/ \E p \in Callers, ok \in BOOLEAN : ClearRemoveCompletes(p, ok)
  \/ Relaunch

SpecSession == InitSession /\ [][NextSession]_vars

InitPlayer ==
  /\ InitTurnVars
  /\ InitSessVars
  /\ IdleDiagVars
  /\ InitPlayerVars
  /\ IdleRecorderVars("undetermined")

NextPlayer ==
  \/ \E b \in PlaybackPayloads \cup {NoAudio} : SetPayload(b)
  \/ \E i \in DOMAIN fileOps, ok \in BOOLEAN : WriteCompletes(i, ok)
  \/ \E i \in DOMAIN fileOps, ok \in BOOLEAN : DeleteCompletes(i, ok)
  \/ \E ok \in BOOLEAN : playAudio(ok)
  \/ \E ok \in BOOLEAN : pauseAudio(ok)
  \/ \E ok \in BOOLEAN : replayAudio(ok)
  \/ ClipEnds
  \/ handleStatusUpdate
  \/ Unmount

SpecPlayer == InitPlayer /\ [][NextPlayer]_vars

\* The player rendered with autoPlay.
InitPlayerAutoPlay ==
  /\ InitTurnVars
  /\ InitSessVars
  /\ IdleDiagVars
  /\ PlayerAtRest /\ autoPlay = TRUE
  /\ IdleRecorderVars("undetermined")

NextPlayerAutoPlay ==
  \/ \E b \in PlaybackPayloads \cup {NoAudio} : SetPayload(b)
  \/ \E i \in DOMAIN fileOps, ok \in BOOLEAN : WriteCompletes(i, ok)
  \/ \E i \in DOMAIN fileOps, ok \in BOOLEAN : AutoPlayCompletes(i, ok)
  \/ \E i \in DOMAIN fileOps, ok \in BOOLEAN : DeleteCompletes(i, ok)
  \/ \E ok \in BOOLEAN : playAudio(ok)
  \/ \E ok \in BOOLEAN : pauseAudio(ok)
  \/ \E ok \in BOOLEAN : replayAudio(ok)
  \/ ClipEnds
  \/ handleStatusUpdate
  \/ Unmount

SpecPlayerAutoPlay == InitPlayerAutoPlay /\ [][NextPlayerAutoPlay]_vars

InitRecorder ==
  /\ InitTurnVars
  /\ InitSessVars
  /\ IdleDiagVars
  /\ InitPlayerVars
  /\ InitRecorderVars

NextRecorder ==
  \/ OsPermissionChanges
  \/ \E a \in PermissionAnswers : MountPermissionResolves(a)
  \/ PressStart
  \/ \E i \in DOMAIN starts, a \in PermissionAnswers :
       StartPermissionResolves(i, a)
  \/ \E i \in DOMAIN starts, ok \in BOOLEAN : StartPrepCompletes(i, ok)
  \/ RecorderStateChanges
  \/ PressStop
  \/ \E t \in timers : TimerFires(t)
  \/ \E i \in DOMAIN stops, ok \in BOOLEAN : StopCompletes(i, ok)
  \/ \E i \in DOMAIN stops, ok \in BOOLEAN : EncodeCompletes(i, ok)
  \/ \E i \in DOMAIN stops, ok \in BOOLEAN : CaptureDeleteCompletes(i, ok)

SpecRecorder == InitRecorder /\ [][NextRecorder]_vars

\* The recorder with its teardown: presses and renders need the mounted
\* component; timers and the continuations of suspended calls run on.
NextRecorderTeardown ==
  \/ OsPermissionChanges
  \/ \E a \in PermissionAnswers : MountPermissionResolves(a)
  \/ recorderMounted /\ PressStart
  \/ \E i \in DOMAIN starts, a \in PermissionAnswers :
       StartPermissionResolves(i, a)
  \/ \E i \in DOMAIN starts, ok \in BOOLEAN : StartPrepCompletes(i, ok)
  \/ recorderMounted /\ RecorderStateChanges
  \/ recorderMounted /\ PressStop
  \/ \E t \in timers : TimerFires(t)
  \/ \E i \in DOMAIN stops, ok \in BOOLEAN : StopCompletes(i, ok)
  \/ \E i \in DOMAIN stops, ok \in BOOLEAN : EncodeCompletes(i, ok)
  \/ \E i \in DOMAIN stops, ok \in BOOLEAN : CaptureDeleteCompletes(i, ok)
  \/ UnmountRecorder

SpecRecorderTeardown == InitRecorder /\ [][NextRecorderTeardown]_vars

InitTranslate ==
  /\ InitTurnVars
  /\ InitSessVars
  /\ IdleDiagVars
  /\ InitPlayerVars
  /\ IdleRecorderVars("undetermined")

NextTranslate ==
  \/ \E text \in TranslateTexts, l \in TargetLanguages : translateText(text, l)
  \/ \E i \in DOMAIN trCalls, r \in FetchOutcomes : TranslateFetchSettles(i, r)
  \/ \E i \in DOMAIN trCalls : TranslateJsonSettles(i)

SpecTranslate == InitTranslate /\ [][NextTranslate]_vars

\* The crop health screen under English or another language.
InitDiagnosis ==
  /\ messages = <<NewMessage(1, "assistant", WelcomeText, NoAudio, <<"mount", 0>>)>>
  /\ textInput = <<>>
  /\ isProcessing = FALSE
  /\ isSending = FALSE
  /\ messageIdCounter = 1
  /\ calls = {}
  /\ turnSeq = 0
  /\ alertCount = 0
  /\ currentLanguage \in {"en", "hi"}
  /\ languageChanges = 0
  /\ turnLog = <<>>
  /\ InitSessVars
  /\ IdleDiagVars
  /\ InitPlayerVars
  /\ IdleRecorderVars("undetermined")

NextDiagnosis ==
  \/ SelectImage
  \/ handleRetake
  \/ handleDiagnosis
  \/ DiagnoseRejects
  \/ \E r \in DiagnosisResponses : DiagnoseResolves(r)
  \/ \E ok \in BOOLEAN : TranslateDiagnosisSettles(ok)

SpecDiagnosis == InitDiagnosis /\ [][NextDiagnosis]_vars

\* The voice chat screen with its VoiceRecorder and the VoicePlayer of one
\* assistant message: the two components run side by side, the payload of
\* the player is fixed by its message.
InitAudioScreen ==
  /\ InitTurnVars
  /\ InitSessVars
  /\ IdleDiagVars
  /\ \E b \in PlaybackPayloads : MountedWithPayload(b)
  /\ InitRecorderVars

NextAudioScreen ==
  \/ NextRecorder
  \/ \E i \in DOMAIN fileOps, ok \in BOOLEAN : WriteCompletes(i, ok)
  \/ \E ok \in BOOLEAN : playAudio(ok)
  \/ \E ok \in BOOLEAN : pauseAudio(ok)
  \/ \E ok \in BOOLEAN : replayAudio(ok)
  \/ ClipEnds
  \/ handleStatusUpdate

SpecAudioScreen == InitAudioScreen /\ [][NextAudioScreen]_vars

\* ------------------------------------------------------------------------
\* Claims: Turn Orchestrator
\* ------------------------------------------------------------------------

\* C1: the orchestrator never has two remote agent calls in flight at once;
\* a submit while a call is outstanding dispatches nothing.
C1_OneCallInFlight == Cardinality(calls) <= 1

\* Positions of the assistant messages of turn tn in the history.
AssistantPositions(tn) ==
  { j \in 1..Len(messages) :
      messages[j].type = "assistant" /\ messages[j].turn = tn }

TurnsWith(outcome) ==
  {n \in DOMAIN turnLog : turnLog[n].outcome = outcome}

TurnTag(n) == <<turnLog[n].kind, n>>

MessagePositions(n) ==
  {j \in 1..Len(messages) : messages[j].turn = TurnTag(n)}

\* C11: as long as the language has not changed, every turn that has failed,
\* text or voice, has exactly one assistant message in the history, and it
\* carries the generic failure notice.
C11_FailedTurnAppendsOneNotice ==
  languageChanges = 0 =>
    \A n \in TurnsWith("failed") :
      /\ Cardinality(AssistantPositions(TurnTag(n))) = 1
      /\ \A j \in AssistantPositions(TurnTag(n)) : messages[j].content = ErrorText

\* C12: a turn that has failed has at most one assistant message in the
\* history, whichever step failed.
C12_FailedTurnAtMostOneAssistant ==
  \A n \in TurnsWith("failed") : Cardinality(AssistantPositions(TurnTag(n))) <= 1

C12_Witness ==
  \E n \in TurnsWith("failed") :
    /\ turnLog[n].kind = "text"
    /\ \E j \in AssistantPositions(TurnTag(n)) : messages[j].content = ErrorText

\* The step in which voice turn n settles successfully.
VoiceTurnSucceeds(n) ==
  /\ n \in DOMAIN turnLog
  /\ turnLog[n].kind = "voice"
  /\ turnLog[n].outcome = "pending"
  /\ turnLog'[n].outcome = "ok"

\* C13: the step in which a voice turn settles successfully appends exactly
\* two messages to the history: the user message with the transcript, then
\* the assistant message with the response audio of the backend.
C13_VoiceSuccessAppendsUserThenAssistant ==
  [][ \A n \in DOMAIN turnLog : VoiceTurnSucceeds(n) =>
        /\ Len(messages') = Len(messages) + 2
        /\ SubSeq(messages', 1, Len(messages)) = messages
        /\ LET u == messages'[Len(messages) + 1]
               a == messages'[Len(messages) + 2]
           IN /\ u.type = "user" /\ u.turn = TurnTag(n)
              /\ u.content = "rice price today"
              /\ a.type = "assistant" /\ a.turn = TurnTag(n)
              /\ a.content = "uttara"
              /\ a.audioData = turnLog'[n].responseAudio
              /\ a.isAudio = (turnLog'[n].responseAudio # NoAudio)
              /\ \E c \in calls : c.turn = TurnTag(n) /\ u.audioData = c.payload[1]
    ]_vars

C13_Witness ==
  \E n \in TurnsWith("ok"), j \in 1..Len(messages) :
    /\ turnLog[n].kind = "voice"
    /\ j + 1 = Len(messages)
    /\ messages[j].turn = TurnTag(n) /\ messages[j].type = "user"
    /\ messages[j].content = "rice price today"
    /\ messages[j + 1].turn = TurnTag(n) /\ messages[j + 1].type = "assistant"
    /\ messages[j + 1].audioData = "mp3"

\* Turn b was submitted after turn a had settled.
ResolvedBefore(a, b) == a < b /\ a \notin turnLog[b].pendingAtSubmit

\* C14: when turn a is resolved before turn b is submitted, every message of
\* a precedes every message of b in the history, and within a turn the user
\* message precedes the assistant message.
C14_SequentialTurnsNotInterleaved ==
  /\ \A a, b \in DOMAIN turnLog : ResolvedBefore(a, b) =>
       \A i \in MessagePositions(a), j \in MessagePositions(b) : i < j
  /\ \A n \in DOMAIN turnLog :
       \A i, j \in MessagePositions(n) :
         (messages[i].type = "user" /\ messages[j].type = "assistant") => i < j

C14_Witness ==
  \E a, b \in DOMAIN turnLog, i \in 1..Len(messages) :
    /\ ResolvedBefore(a, b)
    /\ turnLog[a].kind # turnLog[b].kind
    /\ i + 3 = Len(messages)
    /\ messages[i].turn = TurnTag(a) /\ messages[i].type = "user"
    /\ messages[i + 1].turn = TurnTag(a) /\ messages[i + 1].type = "assistant"
    /\ messages[i + 2].turn = TurnTag(b) /\ messages[i + 2].type = "user"
    /\ messages[i + 3].turn = TurnTag(b) /\ messages[i + 3].type = "assistant"

\* C15: the history is append-only: every step keeps the messages it finds,
\* at their positions and with their content.
C15_HistoryAppendOnly ==
  [][ /\ Len(messages') >= Len(messages)
      /\ SubSeq(messages', 1, Len(messages)) = messages ]_vars

MessageIds(msgs) == {msgs[i].id : i \in 1..Len(msgs)}

\* The step in which a text turn is submitted.
TextTurnSubmitted ==
  /\ Len(turnLog') = Len(turnLog) + 1
  /\ turnLog'[Len(turnLog')].kind = "text"

\* C16: the ids of the messages in the history are pairwise distinct; a
\* message that enters the history has an id no message had before the step;
\* submitting a text (also one identical to that of an earlier failed turn)
\* appends one message with a new id and keeps all earlier messages.
C16_MessageIdsDistinct ==
  /\ [](\A i, j \in 1..Len(messages) :
          i # j => messages[i].id # messages[j].id)
  /\ [][ /\ \A j \in 1..Len(messages') :
              (j > Len(messages) \/ messages'[j] # messages[j]) =>
                messages'[j].id \notin MessageIds(messages)
         /\ TextTurnSubmitted =>
              /\ Len(messages') = Len(messages) + 1
              /\ SubSeq(messages', 1, Len(messages)) = messages
              /\ messages'[Len(messages')].turn = <<"text", Len(turnLog')>>
    ]_vars

C16_Witness ==
  \E a, b \in DOMAIN turnLog, i, j \in 1..Len(messages) :
    /\ a < b
    /\ turnLog[a].kind = "text" /\ turnLog[a].outcome = "failed"
    /\ turnLog[b].kind = "text"
    /\ messages[i].turn = TurnTag(a) /\ messages[i].type = "user"
    /\ messages[j].turn = TurnTag(b) /\ messages[j].type = "user"
    /\ messages[i].content = messages[j].content
    /\ messages[i].id # messages[j].id

\* C17: every request awaiting its response carries the session service's
\* current userId and sessionId, and neither is empty.
C17_RequestsCarrySessionIdentity ==
  \A c \in calls :
    /\ c.user_id = userId /\ c.user_id # NoId
    /\ c.session_id = sessionId /\ c.session_id # NoId

\* C28: every request dispatched carries the code of the language active at
\* its dispatch: the speech-recognition code on a voice turn, the text code
\* on a text turn.
C28_RequestCarriesCodeOfItsKind ==
  [][ \A c \in calls' \ calls :
        c.language_code = IF c.kind = "voice"
                            THEN getSpeechRecognitionCode(currentLanguage)
                            ELSE getTextApiCode(currentLanguage) ]_vars

\* C29: for the active language id, listed or not, both helpers return a
\* code that is neither empty nor undefined; Odia gets the speech code of
\* Hindi and its own text code; no request carries an empty code.
C29_LanguageCodeNeverEmpty ==
  /\ getSpeechRecognitionCode(currentLanguage) \notin {"", Undefined}
  /\ getTextApiCode(currentLanguage) \notin {"", Undefined}
  /\ currentLanguage = "od" =>
       /\ getSpeechRecognitionCode(currentLanguage) = "hi-IN"
       /\ getSpeechRecognitionCode(currentLanguage) = getSpeechRecognitionCode("hi")
       /\ getTextApiCode(currentLanguage) = "od"
  /\ \A c \in calls : c.language_code \notin {"", Undefined}

\* C29 witness: a request is in flight that was dispatched under a language
\* id the table does not list.
C29_Witness ==
  /\ currentLanguage \notin SupportedLanguageIds
  /\ \E c \in calls : c.language_code = "en-US"

\* ------------------------------------------------------------------------
\* Claims: Session Identity Manager
\* ------------------------------------------------------------------------

\* Ids of one kind ("user" or "session") generated so far.
GeneratedOf(kind) == { g \in generated : g[1] = kind }

\* Every call so far was getUserId or getSessionId, was invoked on the fresh
\* service before any storage request had completed, no storage request
\* failed, and all of them (at least two) have returned.
ConcurrentFirstCallsDone ==
  /\ launch = 1
  /\ sessFlags.gettersOnly /\ sessFlags.overlapped /\ ~sessFlags.faults
  /\ \A p \in Callers : procs[p].pc = "idle"
  /\ Len(rets) >= 2

\* C3: concurrent first calls of getUserId / getSessionId create exactly one
\* userId and one sessionId, callers of the same getter return the same
\* value, and no caller returns null.
C3_ConcurrentInitIdempotent ==
  ConcurrentFirstCallsDone =>
    /\ Cardinality(GeneratedOf("user")) = 1
    /\ Cardinality(GeneratedOf("session")) = 1
    /\ \A i, j \in DOMAIN rets :
         rets[i].op = rets[j].op => rets[i].value = rets[j].value
    /\ \A i \in DOMAIN rets : rets[i].value # NoId

\* C4: as long as clearSession has not been called, at most one value is
\* ever stored under the user-id key.
C4_UserIdPersistedOnce ==
  ~sessFlags.cleared => Cardinality(persistedUserIds) <= 1

\* C18: getUserId and getSessionId never throw and never return an empty
\* id, whatever storage request failed.
C18_GettersNeverThrow ==
  \A i \in DOMAIN rets :
    rets[i].op \in {"getUserId", "getSessionId"} =>
      /\ rets[i].outcome # "throws"
      /\ rets[i].outcome = "value" => rets[i].value # NoId

\* C19: with no storage fault and no clearSession, getUserId returns the
\* same value in every launch, and a sessionId returned by getSessionId in a
\* launch differs from every sessionId returned in an earlier launch.
C19_UserIdStableSessionIdFresh ==
  (~sessFlags.faults /\ ~sessFlags.cleared) =>
    \A i, j \in DOMAIN rets :
      /\ (rets[i].op = "getUserId" /\ rets[j].op = "getUserId"
          /\ rets[i].outcome = "value" /\ rets[j].outcome = "value") =>
           rets[i].value = rets[j].value
      /\ (rets[i].op = "getSessionId" /\ rets[j].op = "getSessionId"
          /\ rets[i].outcome = "value" /\ rets[j].outcome = "value"
          /\ rets[i].launch < rets[j].launch) =>
           rets[i].value # rets[j].value

\* The steps of a startNewSession call of caller p: its invocation and its
\* successful completion.
StartNewSessionInvoked(p) ==
  procs[p].pc = "idle" /\ procs'[p].pc = "newSess"

StartNewSessionCompleted(p) ==
  /\ procs[p].pc = "newSess" /\ procs'[p].pc = "idle"
  /\ Len(rets') = Len(rets) + 1
  /\ rets'[Len(rets')].outcome = "value"

ClearSessionCompleted(p) ==
  /\ procs[p].pc = "remove" /\ procs'[p].pc = "idle"
  /\ Len(rets') = Len(rets) + 1
  /\ rets'[Len(rets')].outcome = "value"

\* C21: when clearSession completes, neither key is stored and neither id is
\* held in memory; an id that getUserId or getSessionId returns after a
\* completed clearSession is non-empty and differs from every id returned
\* before that clearSession.
C21_ClearSessionWipesBothIds ==
  /\ [](\A i, j \in DOMAIN rets :
          ( /\ i < j
            /\ rets[i].op = "clearSession" /\ rets[i].outcome = "value"
            /\ rets[j].op \in {"getUserId", "getSessionId"}
            /\ rets[j].outcome = "value" ) =>
            /\ rets[j].value # NoId
            /\ \A k \in 1..(i - 1) : rets[k].value # rets[j].value)
  /\ [][ \A p \in Callers : ClearSessionCompleted(p) =>
           /\ storage' = [app_session_id |-> NoId, app_user_id |-> NoId]
           /\ sessionId' = NoId
           /\ userId' = NoId ]_vars

\* ------------------------------------------------------------------------
\* Claims: Audio Playback Controller
\* ------------------------------------------------------------------------

\* Every FileSystem request of the player has completed, none of them failed.
PlayerQuiescent == fileOps = <<>> /\ ~playerLog.faults

\* C5: after two loads in succession, once all pending file operations have
\* completed, exactly one temp playback file is on disk and it is the one
\* the controller references.
C5_TwoLoadsLeaveOneFile ==
  (mounted /\ playerLog.loads = 2 /\ base64Audio # NoAudio /\ PlayerQuiescent)
    => /\ state.audioUri # NoFile
       /\ disk = {state.audioUri}

\* C6: if the controller was playing a loaded payload when it was torn down,
\* then once the cleanup has completed its temp playback file is not on
\* disk.
C6_NoFileAfterTeardownWhilePlaying ==
  (~mounted /\ playerLog.unmountedPlaying /\ PlayerQuiescent)
    => playerLog.unmountedFile \notin disk

\* C7: whatever the controller was doing when it was torn down (a load in
\* flight included), no temp playback file of it is on disk once its pending
\* operations have finished.
C7_NoFileAfterAnyExit ==
  (~mounted /\ PlayerQuiescent) => disk = {}

\* Ready as the component renders it: mounted, not loading, no error, and a
\* file reference set.
PlayerReady ==
  mounted /\ ~state.isLoading /\ ~state.hasError /\ state.audioUri # NoFile

\* C22: whenever the player is ready, there is a payload, the file the state
\* refers to is the one drawn for that payload, and it is written on disk.
C22_ReadyOnlyWithCompleteFile ==
  PlayerReady =>
    /\ base64Audio # NoAudio
    /\ state.audioUri = fileSeq
    /\ state.audioUri \in disk

\* C23: a file reference (state.audioUri, audioUriRef) is set only while the
\* file it names is on disk, and a step that deletes a file leaves no
\* reference to it.
C23_FileReferenceOnlyWhileFileExists ==
  /\ [](mounted => (state.audioUri # NoFile => state.audioUri \in disk))
  /\ [](audioUriRef # NoFile => audioUriRef \in disk)
  /\ [][ \A f \in disk \ disk' :
           state'.audioUri # f /\ audioUriRef' # f ]_vars

\* C24: every failure reported through onError (decode, play, pause, replay)
\* leaves the mounted player in the error state with a message; in the error
\* state both controls are disabled, and the error is cleared only by a new
\* load.
C24_EveryFailureEntersErrorState ==
  /\ [][ (mounted /\ playerLog'.onError # playerLog.onError) =>
           (state'.hasError /\ state'.errorMessage # "") ]_vars
  /\ [](state.hasError =>
          /\ isDisabled(state, PlayerDisabledProp)
          /\ ~ReplayEnabled(state, PlayerDisabledProp))
  /\ [][ (state.hasError /\ ~state'.hasError) =>
           playerLog'.loads = playerLog.loads + 1 ]_vars

\* A press of the play / pause button that togglePlayback hands to playAudio,
\* and one it hands to pauseAudio.
PlayRequest == \E ok \in BOOLEAN : playAudio(ok)
PauseRequest == \E ok \in BOOLEAN : pauseAudio(ok)

C26_TeardownStopsPlayback == ~mounted => ~playing

\* ------------------------------------------------------------------------
\* Claims: Voice chat screen, playback against capture
\* ------------------------------------------------------------------------

\* C27: playback never runs while the recorder is recording or stopping:
\* neither is playback started during a recording nor a recording started
\* during playback.
C27_PlaybackAndCaptureExclusive ==
  ~(playing /\ Phase \in {"recording", "stopping"})

\* ------------------------------------------------------------------------
\* Claims: Audio Capture Controller
\* ------------------------------------------------------------------------
RecorderQuiescent ==
  /\ starts = <<>>
  /\ stops = <<>>
  /\ ~recorder.recording
  /\ ~recLog.deleteFaults

\* C8: every stopRecording, successful or failed, deletes the recording's
\* temporary file: once no start or stop is in progress, nothing is being
\* recorded and no delete was rejected, no recording file is left on disk.
C8_StopAlwaysDeletesFile == RecorderQuiescent => captureDisk = {}

\* C9: while a recording that was started is still running and no stop of it
\* has been requested, its 60 s safety timer is armed.
C9_TimerArmedUntilStop ==
  (recorder.recording /\ ~recLog.stopRequested) =>
    (timeoutRef # NoTimer /\ timeoutRef \in timers)

\* The step in which the OS refuses the permission a start attempt asked for.
DeniedStartStep == denied' # denied

\* No trace of a capture for a refused attempt: no suspended call, no
\* recording file, no recorder uri, no emitted payload.
NoCaptureForDenied ==
  \A n \in denied :
    /\ \A i \in DOMAIN starts : starts[i].n # n
    /\ n \notin captureDisk
    /\ recorder.uri # n
    /\ \A k \in DOMAIN recLog.payloads : recLog.payloads[k] # n

\* C10: when the OS refuses the permission a start attempt asks for, the
\* attempt ends in that step: the permission status is denied, onError is
\* called once, nothing is captured and no payload is emitted (then or
\* later), no new permission request is issued, and a controller with
\* nothing else in progress is idle.
C10_DeniedStartReturnsToIdle ==
  /\ []NoCaptureForDenied
  /\ [][ DeniedStartStep =>
          /\ permissionStatus' = "denied"
          /\ recLog'.onError = recLog.onError + 1
          /\ recLog'.payloads = recLog.payloads
          /\ recorder' = recorder
          /\ captureDisk' = captureDisk
          /\ timers' = timers
          /\ mountPermission' = mountPermission
          /\ Len(starts') = Len(starts) - 1
          /\ \A i \in DOMAIN starts' : starts'[i].pc = "perm" =>
                \E j \in DOMAIN starts : starts[j] = starts'[i]
          /\ (Len(starts) = 1 /\ stops = <<>> /\ ~recorder.recording) =>
                Phase' = "idle" ]_vars

C10_Witness ==
  /\ denied # {}
  /\ permissionStatus = "denied"
  /\ recLog.onError >= 1
  /\ recLog.payloads = <<>>
  /\ Phase = "idle"

\* C30: a refused permission ends only the attempt that asked for it.  Once
\* the user has granted the permission in the OS settings and the controller
\* is idle, the record button accepts a further start, and a start accepted
\* after a refusal asks for the permission again.
C30_DenialEndsOnlyTheAttempt ==
  /\ []( ( /\ denied # {}
           /\ osPermission = "granted"
           /\ Phase = "idle" /\ ~isRecording
           /\ recLog.attempts < MaxAttempts ) => ENABLED PressStart )
  /\ [][ (denied # {} /\ Len(starts') = Len(starts) + 1) =>
           starts'[Len(starts')].pc = "perm" ]_vars

\* The step in which the encode of stop call i has succeeded.
EncodeSucceeded(i) ==
  /\ i \in DOMAIN stops /\ stops[i].pc = "encode"
  /\ Len(stops') = Len(stops)
  /\ stops'[i].pc = "delete"

C32_TeardownReleasesCaptureFile ==
  ( /\ ~recorderMounted
    /\ recLog.unmountedUri # NoFile
    /\ starts = <<>> /\ stops = <<>> ) =>
    ( /\ ~recorder.recording
      /\ recLog.unmountedUri \notin captureDisk )

\* The alerts the user sees for a step of the recorder: those the recorder
\* raises itself and those the screen raises for its onError calls.
NoticesOfStep ==
  (recLog'.alerts - recLog.alerts)
    + handleRecordingError(recLog'.onError - recLog.onError)

\* C34: no step of the capture controller (a refused or failed permission
\* request, a failed start, a failed stop or encode) and no settled turn
\* shows the user more than one alert.
C34_OneNoticePerFailure ==
  [][ NoticesOfStep <= 1 /\ alertCount' - alertCount <= 1 ]_vars

\* ------------------------------------------------------------------------
\* Claims: Diagnosis service
\* ------------------------------------------------------------------------

\* C33: no translateText call rejects, and a call whose request failed in
\* any way (fetch rejected, status not ok, body not JSON, null, or without a
\* non-empty translated_text) resolves to the text it was given.
C33_TranslateTextBestEffort ==
  \A k \in DOMAIN trResults :
    /\ trResults[k].outcome = "value"
    /\ trResults[k].failed => trResults[k].value = trResults[k].text

\* C33 witness: a call whose response was ok but whose body was null or
\* without a usable translated_text has settled, and another call has
\* returned a translation.
C33_Witness ==
  /\ \E k \in DOMAIN trResults :
        trResults[k].failed /\ trResults[k].text = <<"q">>
  /\ \E k \in DOMAIN trResults :
        ~trResults[k].failed /\ trResults[k].value = <<"t">>

\* C35: a JSON document parses to the same result clean and inside a
\* json code fence; and when diagnoseCrop delivers a raw response that cannot
\* be parsed, the flow does not stay busy and the result view is opened
\* showing that raw text with the could-not-parse indication.
C35_FencedParsesAlikeUnparseableShowsRaw ==
  /\ [](\A j \in JsonTexts :
          /\ parseAgentResponse(CleanJson(j)) = j
          /\ parseAgentResponse(FencedJson(j)) = j)
  /\ [][ ( /\ diagnosisScreen.pc = "diagnose"
           /\ diagnosisScreen'.pc = "idle"
           /\ diagnosisScreen'.raw # NoRaw
           /\ parseAgentResponse(diagnosisScreen'.raw) = Null ) =>
           ( /\ ~diagnosisScreen'.isLoading
             /\ resultView'.view = "unable"
             /\ resultView'.rawShown = diagnosisScreen'.raw ) ]_vars

\* C36: a recording yields at most one payload: no capture file is handed
\* to onAudioRecorded twice, whatever stop requests overlap.
C36_OnePayloadPerRecording ==
  \A k1, k2 \in DOMAIN recLog.payloads :
    recLog.payloads[k1] = recLog.payloads[k2] => k1 = k2

\* A stopRecording call made by the callback of timer t (a press of stop
\* clears only the timer of the ref).
FiredTimer(t) ==
  /\ t \in timers /\ t \notin timers' /\ t # timeoutRef
  /\ recLog'.stopCalls = recLog.stopCalls + 1

\* C37: at most one safety timer is pending at any time, and a timer armed
\* for one recording never fires while a later recording is in progress.
C37_OneTimerOwnRecording ==
  /\ [](Cardinality(timers) <= 1)
  /\ [][ \A t \in timers :
           (FiredTimer(t) /\ recorder.recording) => recorder.uri = t ]_vars

\* C38: every dispatched turn returns the orchestrator to idle: the step
\* in which a turn's call settles (success, success false, or thrown)
\* clears that turn's busy flag, and a busy flag that is set is eventually
\* cleared, so that a later submit is accepted.
C38_SettledTurnReturnsToIdle ==
  /\ [][ \A n \in DOMAIN turnLog :
           (turnLog[n].outcome = "pending" /\ turnLog'[n].outcome # "pending")
             => IF turnLog[n].kind = "text" THEN ~isSending'
                                            ELSE ~isProcessing' ]_vars
  /\ (isSending ~> ~isSending)
  /\ (isProcessing ~> ~isProcessing)

\* A turn whose call threw, followed by a second turn that was accepted
\* and answered; the orchestrator is idle again.
C38_Witness ==
  /\ Len(turnLog) = 2
  /\ turnLog[1].outcome = "failed" /\ turnLog[2].outcome = "ok"
  /\ turnLog[2].pendingAtSubmit = {}
  /\ calls = {} /\ ~isSending /\ ~isProcessing
  /\ alertCount = 1

\* The step ran the catch block of initializeSession (the only step that
\* generates two ids at once).
FallbackRan == uuidSeq' = uuidSeq + 2

AutoPlayLoadCompleted ==
  /\ autoPlay
  /\ \E i \in DOMAIN fileOps :
       /\ fileOps[i].kind = "write"
       /\ fileOps[i].file \notin disk /\ fileOps[i].file \in disk'

\* C40: with autoPlay, when the load of a payload completes playback is
\* started (play is under way or the player plays) without any user
\* action and no error is reported, for the first payload and later ones.
C40_AutoPlayStartsAfterLoad ==
  [][ AutoPlayLoadCompleted =>
        ( /\ playerLog'.onError = playerLog.onError
          /\ \/ playing'
             \/ \E j \in DOMAIN fileOps' : fileOps'[j].kind = "autoplay" ) ]_vars

====
